---- MODULE Spec2Model ----
(***************************************************************************)
(* State-machine model of the map hierarchy services of LukeRoberson/maps: *)
(* the SQLite store (map_areas, layers, annotations, boundaries), the      *)
(* layer-inheritance resolver, the layer / annotation mutation guards and  *)
(* the boundary containment validation of the HTTP routes.                 *)
(*                                                                         *)
(* Two snapshots of the layer service live in the repository and both are  *)
(* modelled: services/layer_service.py (list_layers_for_map_area) and      *)
(* backend/layer.py (LayerService.read(map_id=...)).                       *)
(***************************************************************************)
EXTENDS Integers, Sequences, FiniteSets, TLC

\* ---------------------------------------------------------------- bounds
MaxProjects == 1       \* rows ever inserted into projects
MaxAreas == 2          \* rows ever inserted into map_areas
MaxLayers == 3         \* rows ever inserted into layers
MaxAnnotations == 1    \* rows ever inserted into annotations
MaxBoundaries == 2     \* rows ever inserted into boundaries
MaxClock == 1          \* CURRENT_TIMESTAMP takes the values 0..MaxClock
MaxWorkers == 2        \* layer listings served at the same time
RecursionLimit == 3    \* frames of list_layers_for_map_area Python allows
GridMax == 3           \* polygon vertices and points have coordinates 0..GridMax
ChainDepth == 3        \* areas of the chain master, child, grandchild, ...

\* SQL NULL / Python None; AUTOINCREMENT ids start at 1
NULL == 0

\* ------------------------------------------------------------ input sets
ZValues == {0, 1}      \* z_index values of the requests
LAYER_TYPES == {"annotation", "custom"}
AREA_TYPES == {"master", "suburb", "individual"}
\* what SQLite may do with rows that compare equal under ORDER BY, or with
\* no ORDER BY at all: the model takes the two extreme outcomes, rowid
\* ascending and rowid descending
TieOrders == {"asc", "desc"}

VARIABLES
    projects,      \* table projects: set of rows
    map_areas,     \* table map_areas: set of rows
    layers,        \* table layers: set of rows
    annotations,   \* table annotations: set of rows
    boundaries,    \* table boundaries: set of rows
    lastrowid,     \* AUTOINCREMENT counter of each table
    clock,         \* CURRENT_TIMESTAMP (one-second resolution)
    calls,         \* the layer listings in progress, one per worker
    result         \* what the last request returned to its caller

vars ==
    <<projects, map_areas, layers, annotations, boundaries, lastrowid, clock,
      calls, result>>

\* no layer listing in progress
NoCalls == <<>>

\* ------------------------------------------------------- generic helpers
Ids(S) == {r.id : r \in S}
RowOf(S, id) == CHOOSE r \in S : r.id = id
Range(s) == {s[i] : i \in 1..Len(s)}

TieBefore(id1, id2, tie) == IF tie = "asc" THEN id1 < id2 ELSE id1 > id2

\* cursor.fetchone() of a SELECT without ORDER BY over the rows S
fetchone(S, tie) == CHOOSE r \in S : \A o \in S \ {r} : TieBefore(r.id, o.id, tie)

\* ORDER BY z_index, created_at
OrderBefore(r, o, tie) ==
    \/ r.z_index < o.z_index
    \/ r.z_index = o.z_index /\ r.created_at < o.created_at
    \/ r.z_index = o.z_index /\ r.created_at = o.created_at
        /\ TieBefore(r.id, o.id, tie)

RECURSIVE OrderRows(_, _)
OrderRows(S, tie) ==
    IF S = {} THEN <<>>
    ELSE LET m == CHOOSE r \in S : \A o \in S \ {r} : OrderBefore(r, o, tie)
         IN <<m>> \o OrderRows(S \ {m}, tie)

\* list.sort(key=lambda layer: layer.z_index): Python's sort is stable
InsertByZ(sorted, x) ==
    LET k == Cardinality({i \in 1..Len(sorted) : sorted[i].z_index <= x.z_index})
    IN SubSeq(sorted, 1, k) \o <<x>> \o SubSeq(sorted, k + 1, Len(sorted))

RECURSIVE SortByZ(_)
SortByZ(s) ==
    IF s = <<>> THEN <<>>
    ELSE InsertByZ(SortByZ(SubSeq(s, 1, Len(s) - 1)), s[Len(s)])

\* ------------------------------------------------------------ the store
\* The part of the database a layer resolution reads and writes.
Db == [layers |-> layers, lastrowid |-> lastrowid.layers, now |-> clock]

\* INSERT INTO layers: the row gets the next AUTOINCREMENT id and
\* created_at = CURRENT_TIMESTAMP
InsertLayer(db, layer) ==
    LET id == db.lastrowid + 1
        row == [layer EXCEPT !.id = id, !.created_at = db.now]
    IN [db |-> [db EXCEPT !.layers = @ \cup {row}, !.lastrowid = id],
        row |-> row]

\* Layer(...) / LayerModel(...): a layer object not yet stored
Layer(map_area_id, parent_layer_id, name, layer_type, visible, z_index, is_editable, config) ==
    [id |-> NULL, map_area_id |-> map_area_id,
     parent_layer_id |-> parent_layer_id, name |-> name,
     layer_type |-> layer_type, visible |-> visible, z_index |-> z_index,
     is_editable |-> is_editable, config |-> config, created_at |-> NULL]

\* SELECT parent_id FROM map_areas WHERE id = ?  (NULL when there is no row
\* or the row's parent_id is NULL)
ParentOf(map_area_id) ==
    IF map_area_id \in Ids(map_areas)
    THEN RowOf(map_areas, map_area_id).parent_id
    ELSE NULL

\* ------------------------------------- services/layer_service.py resolver
\* a listing whose own layers are all the layers stored for the area
list_own_layers_AnyOrigin(map_area_id, db, tie) ==
    OrderRows({r \in db.layers : r.map_area_id = map_area_id}, tie)

list_own_layers(map_area_id, db, tie) ==
    OrderRows({r \in db.layers : r.map_area_id = map_area_id
                                  /\ r.parent_layer_id = NULL}, tie)

\* a lookup that never finds the stored copy
FindInheritedCopy_Never(map_area_id, parent_layer_id, db) == {}

\* SELECT * FROM layers WHERE map_area_id = ? AND parent_layer_id = ?
FindInheritedCopy(map_area_id, parent_layer_id, db) ==
    {r \in db.layers : r.map_area_id = map_area_id
                       /\ r.parent_layer_id = parent_layer_id}

\* an inherited layer that keeps the parent layer's is_editable = True
InheritedLayer_Editable(map_area_id, parent_layer) ==
    [parent_layer EXCEPT !.id = NULL, !.map_area_id = map_area_id,
                         !.parent_layer_id = parent_layer.id,
                         !.created_at = NULL]

\* the inherited layer built from parent_layer for map_area_id
InheritedLayer(map_area_id, parent_layer) ==
    Layer(map_area_id, parent_layer.id, parent_layer.name,
          parent_layer.layer_type, parent_layer.visible,
          parent_layer.z_index, FALSE, parent_layer.config)

\* the loop "for parent_layer in parent_layers" from position i on
RECURSIVE InheritLoop(_, _, _, _, _, _)
InheritLoop(map_area_id, parent_layers, i, db, inherited_layers, tie) ==
    IF i > Len(parent_layers)
    THEN [db |-> db, list |-> inherited_layers]
    ELSE LET parent_layer == parent_layers[i]
             existing == FindInheritedCopy(map_area_id, parent_layer.id, db)
         IN IF existing # {}
            THEN InheritLoop(map_area_id, parent_layers, i + 1, db,
                     Append(inherited_layers, fetchone(existing, tie)), tie)
            ELSE LET created ==
                        InsertLayer(db, InheritedLayer(map_area_id, parent_layer))
                 IN InheritLoop(map_area_id, parent_layers, i + 1, created.db,
                        Append(inherited_layers, created.row), tie)

RECURSIVE list_layers_for_map_area(_, _, _)
RECURSIVE get_inherited_layers(_, _, _)

get_inherited_layers(map_area_id, db, tie) ==
    LET parent_id == ParentOf(map_area_id)
    IN IF parent_id = NULL
       THEN [db |-> db, list |-> <<>>]
       ELSE LET parent == list_layers_for_map_area(parent_id, db, tie)
            IN InheritLoop(map_area_id, parent.list, 1, parent.db, <<>>, tie)

list_layers_for_map_area(map_area_id, db, tie) ==
    LET own_layers == list_own_layers(map_area_id, db, tie)
        inherited == get_inherited_layers(map_area_id, db, tie)
    IN [db |-> inherited.db,
        list |-> SortByZ(own_layers \o inherited.list)]

\* ------------------------------------------- backend/layer.py resolver
\* getattr(parent_row, 'parent_id', None): parent_row is a sqlite3.Row
\* (row_factory of DatabaseContext), which gives its columns by index and
\* by key but not as attributes, so getattr returns its default
RowGetattr(row, name, default) == default

LayerService_list_own_layers(map_id, db, tie) ==
    OrderRows({r \in db.layers : r.map_area_id = map_id
                                  /\ r.parent_layer_id = NULL}, tie)

RECURSIVE LayerService_read(_, _, _)
RECURSIVE LayerService_get_inherited_layers(_, _, _)

LayerService_get_inherited_layers(map_id, db, tie) ==
    IF map_id \notin Ids(map_areas) \/ RowOf(map_areas, map_id).parent_id = NULL
    THEN [db |-> db, list |-> <<>>]
    ELSE LET parent_id_value ==
                 RowGetattr(RowOf(map_areas, map_id), "parent_id", NULL)
         IN IF parent_id_value = NULL
            THEN [db |-> db, list |-> <<>>]
            ELSE LET parent == LayerService_read(parent_id_value, db, tie)
                 IN InheritLoop(map_id, parent.list, 1, parent.db, <<>>, tie)

LayerService_read(map_id, db, tie) ==
    LET own_layers == LayerService_list_own_layers(map_id, db, tie)
        inherited == LayerService_get_inherited_layers(map_id, db, tie)
    IN [db |-> inherited.db,
        list |-> SortByZ(own_layers \o inherited.list)]

\* ---------------------------------------------------------------- state
\* What a request returned: op is the request, id the layer / area /
\* annotation it was about, list the layers a layer listing returned (or
\* what a create request carried: the coordinates of a boundary, the type
\* of an annotation) and created the number of layer rows a listing inserted.
Response(op, status, id) ==
    [op |-> op, status |-> status, id |-> id, list |-> <<>>, created |-> 0]

Listing(op, map_area_id, list, created) ==
    [op |-> op, status |-> "ok", id |-> map_area_id, list |-> list,
     created |-> created]

\* the answer to a boundary request; list holds the coordinates of the
\* request
BoundaryResponse(status, map_area_id, coordinates) ==
    [op |-> "create_boundary", status |-> status, id |-> map_area_id,
     list |-> coordinates, created |-> 0, error |-> <<>>]

Init ==
    /\ projects = {}
    /\ map_areas = {}
    /\ layers = {}
    /\ annotations = {}
    /\ boundaries = {}
    /\ lastrowid = [projects |-> 0, map_areas |-> 0, layers |-> 0,
                    annotations |-> 0, boundaries |-> 0]
    /\ clock = 0
    /\ calls = NoCalls
    /\ result = Response("init", "ok", NULL)

\* time passes between two requests
Tick ==
    /\ clock < MaxClock
    /\ clock' = clock + 1
    /\ UNCHANGED <<projects, map_areas, layers, annotations, boundaries,
                   lastrowid, calls, result>>

\* POST /api/projects
create_project ==
    /\ lastrowid.projects < MaxProjects
    /\ LET id == lastrowid.projects + 1
       IN /\ projects' = projects \cup {[id |-> id]}
          /\ lastrowid' = [lastrowid EXCEPT !.projects = id]
          /\ result' = Response("create_project", "ok", id)
    /\ UNCHANGED <<map_areas, layers, annotations, boundaries, clock, calls>>

\* the foreign keys of a map_areas row (PRAGMA foreign_keys = ON): its
\* project and, when it has one, its parent are stored rows
MapAreaForeignKeys(project_id, parent_id) ==
    /\ project_id \in Ids(projects)
    /\ parent_id # NULL => parent_id \in Ids(map_areas)

\* POST /api/map-areas
create_map_area(project_id, parent_id, area_type) ==
    /\ IF area_type \notin AREA_TYPES
       THEN /\ result' = Response("create_map_area", "400", NULL)
            /\ UNCHANGED <<map_areas, lastrowid>>
       ELSE IF ~MapAreaForeignKeys(project_id, parent_id)
       THEN /\ result' = Response("create_map_area", "500", NULL)
            /\ UNCHANGED <<map_areas, lastrowid>>
       ELSE /\ lastrowid.map_areas < MaxAreas
            /\ LET id == lastrowid.map_areas + 1
               IN /\ map_areas' = map_areas \cup
                         {[id |-> id, project_id |-> project_id,
                           parent_id |-> parent_id, area_type |-> area_type]}
                  /\ lastrowid' = [lastrowid EXCEPT !.map_areas = id]
                  /\ result' = Response("create_map_area", "ok", id)
    /\ UNCHANGED <<layers, annotations, boundaries, clock, projects, calls>>

\* POST /api/layers
create_layer(map_area_id, name, layer_type, visible, z_index, config) ==
    /\ lastrowid.layers < MaxLayers
    /\ IF layer_type \notin LAYER_TYPES \/ map_area_id \notin Ids(map_areas)
       THEN /\ result' = Response("create_layer", "error", NULL)
            /\ UNCHANGED <<layers, lastrowid>>
       ELSE LET created == InsertLayer(Db,
                    Layer(map_area_id, NULL, name, layer_type, visible,
                          z_index, TRUE, config))
            IN /\ layers' = created.db.layers
               /\ lastrowid' = [lastrowid EXCEPT !.layers = created.db.lastrowid]
               /\ result' = Response("create_layer", "ok", created.row.id)
    /\ UNCHANGED <<map_areas, annotations, boundaries, clock, projects, calls>>

\* the parent chain of map_area_id comes back to an area it has visited:
\* list_layers_for_map_area and get_inherited_layers then call each other
\* until Python raises RecursionError, before any copy is inserted
RECURSIVE ParentChainLoops(_, _)
ParentChainLoops(map_area_id, visited) ==
    IF ParentOf(map_area_id) = NULL THEN FALSE
    ELSE IF ParentOf(map_area_id) \in visited \cup {map_area_id} THEN TRUE
    ELSE ParentChainLoops(ParentOf(map_area_id), visited \cup {map_area_id})

\* GET /api/layers?map_area_id=  (routes/layers.py, services snapshot)
list_layers(map_area_id) ==
    IF ParentChainLoops(map_area_id, {})
    THEN /\ result' = Response("list_layers", "500", map_area_id)
         /\ UNCHANGED <<map_areas, layers, lastrowid, annotations, boundaries,
                        clock, projects, calls>>
    ELSE \E tie \in TieOrders :
        LET r == list_layers_for_map_area(map_area_id, Db, tie)
        IN /\ r.db.lastrowid <= MaxLayers
           /\ layers' = r.db.layers
           /\ lastrowid' = [lastrowid EXCEPT !.layers = r.db.lastrowid]
           /\ result' = Listing("list_layers", map_area_id, r.list,
                              r.db.lastrowid - lastrowid.layers)
           /\ UNCHANGED <<map_areas, annotations, boundaries, clock, projects, calls>>

\* GET /api/layers?map_area_id=  (api/routes/layers.py, backend snapshot)
api_list_layers(map_id) ==
    \E tie \in TieOrders :
        LET r == LayerService_read(map_id, Db, tie)
        IN /\ r.db.lastrowid <= MaxLayers
           /\ layers' = r.db.layers
           /\ lastrowid' = [lastrowid EXCEPT !.layers = r.db.lastrowid]
           /\ result' = Listing("api_list_layers", map_id, r.list,
                              r.db.lastrowid - lastrowid.layers)
           /\ UNCHANGED <<map_areas, annotations, boundaries, clock, projects, calls>>

\* -------------------------------------------------- a chain of areas
\* the kind of the area at depth d of a chain
ChainKind(d) == IF d = 1 THEN "master" ELSE IF d = 2 THEN "suburb" ELSE "individual"

\* the state after one project and a chain of areas have been created, each
\* area under the one created before it: area 1 is the master
InitChain ==
    /\ projects = {[id |-> 1]}
    /\ map_areas = {[id |-> d, project_id |-> 1, parent_id |-> d - 1,
                     area_type |-> ChainKind(d)] : d \in 1..ChainDepth}
    /\ layers = {}
    /\ annotations = {}
    /\ boundaries = {}
    /\ lastrowid = [projects |-> 1, map_areas |-> ChainDepth, layers |-> 0,
                    annotations |-> 0, boundaries |-> 0]
    /\ clock = 0
    /\ calls = NoCalls
    /\ result = Response("init", "ok", NULL)

\* ------------------------------------------- the listing on a failing store
\* the store reads of a listing that can raise: the SELECT of the area's own
\* layers and the SELECT of its parent_id
StoreReads == {"own_layers", "parent_id"}

\* LayerService.read(map_id=...) of backend/layer.py while the read failing
\* raises: _list_own_layers and _get_inherited_layers log the exception and
\* return []
LayerService_read_failing(map_id, db, tie, failing) ==
    LET own_layers == IF failing = "own_layers" THEN <<>>
                      ELSE LayerService_list_own_layers(map_id, db, tie)
        inherited == IF failing = "parent_id"
                     THEN [db |-> db, list |-> <<>>]
                     ELSE LayerService_get_inherited_layers(map_id, db, tie)
    IN [db |-> inherited.db,
        list |-> SortByZ(own_layers \o inherited.list)]

\* GET /api/layers?map_area_id= (api/routes/layers.py) while a read raises
api_list_layers_store_error(map_id, failing) ==
    \E tie \in TieOrders :
        LET r == LayerService_read_failing(map_id, Db, tie, failing)
        IN /\ r.db.lastrowid <= MaxLayers
           /\ layers' = r.db.layers
           /\ lastrowid' = [lastrowid EXCEPT !.layers = r.db.lastrowid]
           /\ result' = Listing("api_list_layers_store_error", map_id, r.list,
                                r.db.lastrowid - lastrowid.layers)
           /\ UNCHANGED <<projects, map_areas, annotations, boundaries, clock,
                          calls>>

\* GET /api/layers?map_area_id= (routes/layers.py) while a read raises:
\* list_own_layers and get_inherited_layers catch nothing, the route answers
\* 500
list_layers_store_error(map_area_id, failing) ==
    /\ result' = Response("list_layers_store_error", "500", map_area_id)
    /\ UNCHANGED <<projects, map_areas, layers, annotations, boundaries,
                   lastrowid, clock, calls>>

\* ------------------------------------- the listing, one store access a step
\* GET /api/layers?map_area_id= served by services/layer_service.py, with
\* other requests running between its store accesses.  A call is the stack
\* of list_layers_for_map_area frames of one request; next is the area the
\* innermost frame is about to be entered for (NULL once the recursion has
\* come back).
Frame(map_area_id, own_layers) ==
    [map_area_id |-> map_area_id, own_layers |-> own_layers,
     parent_layers |-> <<>>, i |-> 1, inherited_layers |-> <<>>,
     pc |-> "lookup"]

RemoveCall(w) == SubSeq(calls, 1, w - 1) \o SubSeq(calls, w + 1, Len(calls))

Top(c) == c.frames[Len(c.frames)]

SetTop(c, frame) == [c EXCEPT !.frames[Len(c.frames)] = frame]

\* a request for the layers of map_area_id arrives
list_layers_call(map_area_id) ==
    /\ Len(calls) < MaxWorkers
    /\ calls' = Append(calls, [map_area_id |-> map_area_id,
                               next |-> map_area_id, frames |-> <<>>,
                               created |-> 0])
    /\ UNCHANGED <<projects, map_areas, layers, annotations, boundaries,
                   lastrowid, clock, result>>

\* "return all_layers" of the innermost frame: to the frame that called it,
\* or to the route when it was the outermost
Deliver(w, c, all_layers) ==
    IF c.frames = <<>>
    THEN /\ calls' = RemoveCall(w)
         /\ result' = Listing("list_layers", c.map_area_id, all_layers,
                              c.created)
    ELSE /\ calls' = [calls EXCEPT ![w] =
                SetTop([c EXCEPT !.next = NULL],
                       [Top(c) EXCEPT !.parent_layers = all_layers])]
         /\ UNCHANGED result

\* list_layers_for_map_area(next) is entered: own layers and parent link
\* are read; Python raises RecursionError past its recursion limit
list_layers_enter(w) ==
    /\ w \in 1..Len(calls)
    /\ calls[w].next # NULL
    /\ LET c == calls[w]
       IN IF Len(c.frames) >= RecursionLimit
          THEN /\ calls' = RemoveCall(w)
               /\ result' = Response("list_layers", "500", c.map_area_id)
          ELSE \E tie \in TieOrders :
                LET own_layers == list_own_layers(c.next, Db, tie)
                    parent_id == ParentOf(c.next)
                IN IF parent_id = NULL
                   THEN Deliver(w, c, SortByZ(own_layers))
                   ELSE /\ calls' = [calls EXCEPT ![w] =
                                [c EXCEPT !.frames =
                                        Append(@, Frame(c.next, own_layers)),
                                    !.next = parent_id]]
                        /\ UNCHANGED result
    /\ UNCHANGED <<projects, map_areas, layers, annotations, boundaries,
                   lastrowid, clock>>

\* existing_query for the parent layer at position i
list_layers_lookup(w) ==
    /\ w \in 1..Len(calls)
    /\ calls[w].next = NULL
    /\ LET c == calls[w]
           f == Top(c)
       IN /\ f.pc = "lookup"
          /\ f.i <= Len(f.parent_layers)
          /\ \E tie \in TieOrders :
                LET existing == FindInheritedCopy(f.map_area_id,
                                    f.parent_layers[f.i].id, Db)
                IN calls' = [calls EXCEPT ![w] = SetTop(c,
                        IF existing # {}
                        THEN [f EXCEPT !.inherited_layers =
                                        Append(@, fetchone(existing, tie)),
                                    !.i = @ + 1]
                        ELSE [f EXCEPT !.pc = "insert"])]
    /\ UNCHANGED <<projects, map_areas, layers, annotations, boundaries,
                   lastrowid, clock, result>>

\* an insert the store refuses while a copy of the parent layer is stored,
\* followed by a new lookup
list_layers_insert_Unique(w) ==
    /\ w \in 1..Len(calls)
    /\ calls[w].next = NULL
    /\ Top(calls[w]).pc = "insert"
    /\ LET c == calls[w]
           f == Top(c)
           created == InsertLayer(Db,
                        InheritedLayer(f.map_area_id, f.parent_layers[f.i]))
       IN /\ created.db.lastrowid <= MaxLayers
          /\ IF FindInheritedCopy(f.map_area_id, f.parent_layers[f.i].id,
                                  Db) # {}
             THEN /\ calls' = [calls EXCEPT ![w] =
                                SetTop(c, [f EXCEPT !.pc = "lookup"])]
                  /\ UNCHANGED <<layers, lastrowid, result>>
             ELSE /\ layers' = created.db.layers
                  /\ lastrowid' = [lastrowid EXCEPT
                                        !.layers = created.db.lastrowid]
                  /\ calls' = [calls EXCEPT ![w] = SetTop(
                        [c EXCEPT !.created = @ + 1],
                        [f EXCEPT !.inherited_layers =
                                        Append(@, created.row),
                                  !.i = @ + 1, !.pc = "lookup"])]
                  /\ UNCHANGED result
    /\ UNCHANGED <<projects, map_areas, annotations, boundaries, clock>>

\* create_layer(inherited_layer) for the parent layer the lookup missed
list_layers_insert(w) ==
    /\ w \in 1..Len(calls)
    /\ calls[w].next = NULL
    /\ Top(calls[w]).pc = "insert"
    /\ LET c == calls[w]
           f == Top(c)
           created == InsertLayer(Db,
                        InheritedLayer(f.map_area_id, f.parent_layers[f.i]))
       IN /\ created.db.lastrowid <= MaxLayers
          /\ layers' = created.db.layers
          /\ lastrowid' = [lastrowid EXCEPT !.layers = created.db.lastrowid]
          /\ calls' = [calls EXCEPT ![w] = SetTop(
                [c EXCEPT !.created = @ + 1],
                [f EXCEPT !.inherited_layers = Append(@, created.row),
                          !.i = @ + 1, !.pc = "lookup"])]
    /\ UNCHANGED <<projects, map_areas, annotations, boundaries, clock,
                   result>>

\* the loop is over: own and inherited layers are merged and returned
list_layers_return(w) ==
    /\ w \in 1..Len(calls)
    /\ calls[w].next = NULL
    /\ LET c == calls[w]
           f == Top(c)
       IN /\ f.pc = "lookup"
          /\ f.i > Len(f.parent_layers)
          /\ Deliver(w, [c EXCEPT !.frames = SubSeq(@, 1, Len(@) - 1)],
                     SortByZ(f.own_layers \o f.inherited_layers))
    /\ UNCHANGED <<projects, map_areas, layers, annotations, boundaries,
                   lastrowid, clock>>

\* ------------------------------------------------- layer mutation guard
allowed_fields == {"name", "visible", "z_index", "config"}

\* request bodies of PUT /api/layers/<id>; the last one names fields that
\* are not updatable
UpdatePayloads ==
    <<[name |-> "n2", visible |-> FALSE, config |-> "#fff"],
      [z_index |-> 0],
      [z_index |-> 1],
      [is_editable |-> TRUE, parent_layer_id |-> NULL, map_area_id |-> 1,
       layer_type |-> "custom"]>>

\* a request body that names a new name next to fields that are not
\* updatable, each with a value the layer does not have
ForeignPayload ==
    [name |-> "n3", is_editable |-> FALSE, parent_layer_id |-> 1,
     map_area_id |-> 2, layer_type |-> "custom"]

\* an UPDATE that sets every field the request names
ApplyUpdates_All(row, updates) ==
    [f \in DOMAIN row |-> IF f \in DOMAIN updates THEN updates[f] ELSE row[f]]

\* UPDATE layers SET <the allowed fields present in updates> WHERE id = ?
ApplyUpdates(row, updates) ==
    [f \in DOMAIN row |->
        IF f \in allowed_fields /\ f \in DOMAIN updates
        THEN updates[f] ELSE row[f]]

\* ON DELETE CASCADE of layers.parent_layer_id (PRAGMA foreign_keys = ON):
\* the ids deleted together with the ids in dead
RECURSIVE CascadeLayers(_, _)
CascadeLayers(L, dead) ==
    LET more == {r.id : r \in {x \in L : x.parent_layer_id \in dead}} \ dead
    IN IF more = {} THEN dead ELSE CascadeLayers(L, dead \cup more)

\* annotations are deleted with their layer
CascadeAnnotations(A, dead) == {a \in A : a.layer_id \notin dead}

\* ------------------------------------------------------------ area updates
map_allowed_fields ==
    {"name", "parent_id", "boundary_id", "default_center_lat",
     "default_center_lon", "default_zoom"}

\* bodies of PUT /api/map-areas/<id>: each parent_id (null included), a
\* name, and fields that are not updatable
MapUpdatePayloads ==
    {[parent_id |-> p] : p \in 0..MaxAreas}
        \cup {[name |-> "n2"], [area_type |-> "master", project_id |-> 2]}

\* UPDATE map_areas SET <the allowed fields of updates> WHERE id = ?
ApplyMapUpdates(row, updates) ==
    [f \in DOMAIN row |->
        IF f \in map_allowed_fields /\ f \in DOMAIN updates
        THEN updates[f] ELSE row[f]]

\* PUT /api/map-areas/<id>
update_map_area(map_area_id, updates) ==
    /\ IF map_area_id \notin Ids(map_areas)
       THEN /\ result' = Response("update_map_area", "404", map_area_id)
            /\ UNCHANGED map_areas
       ELSE LET row == ApplyMapUpdates(RowOf(map_areas, map_area_id), updates)
            IN IF ~MapAreaForeignKeys(row.project_id, row.parent_id)
               THEN /\ result' = Response("update_map_area", "500", map_area_id)
                    /\ UNCHANGED map_areas
               ELSE /\ map_areas' = {r \in map_areas : r.id # map_area_id}
                                        \cup {row}
                    /\ result' = Response("update_map_area", "ok", map_area_id)
    /\ UNCHANGED <<projects, layers, annotations, boundaries, lastrowid, clock,
                   calls>>

\* ------------------------------------------------- deleting areas, projects
\* ON DELETE CASCADE along map_areas.parent_id: the areas that go when the
\* areas dead go
RECURSIVE CascadeAreas(_, _)
CascadeAreas(M, dead) ==
    LET more == {r.id : r \in {m \in M : m.parent_id \in dead}} \ dead
    IN IF more = {} THEN dead ELSE CascadeAreas(M, dead \cup more)

\* ON DELETE CASCADE along layers.map_area_id: the ids of the layers that
\* go with the areas dead
CascadeAreaLayers_None(L, dead) == {}

CascadeAreaLayers(L, dead) == {l.id : l \in {x \in L : x.map_area_id \in dead}}

\* ON DELETE CASCADE along boundaries.map_area_id
CascadeBoundaries(B, dead) == {b \in B : b.map_area_id \notin dead}

\* the tables once the map_areas rows dead and all that hangs on them are
\* gone
DeleteAreas(dead) ==
    LET gone == CascadeAreas(map_areas, dead)
        deadLayers == CascadeLayers(layers, CascadeAreaLayers(layers, gone))
    IN /\ map_areas' = {m \in map_areas : m.id \notin gone}
       /\ boundaries' = CascadeBoundaries(boundaries, gone)
       /\ layers' = {l \in layers : l.id \notin deadLayers}
       /\ annotations' = CascadeAnnotations(annotations, deadLayers)

\* DELETE /api/map-areas/<id>
delete_map_area(map_area_id) ==
    /\ IF map_area_id \notin Ids(map_areas)
       THEN /\ result' = Response("delete_map_area", "404", map_area_id)
            /\ UNCHANGED <<map_areas, layers, annotations, boundaries>>
       ELSE /\ DeleteAreas({map_area_id})
            /\ result' = Response("delete_map_area", "ok", map_area_id)
    /\ UNCHANGED <<projects, lastrowid, clock, calls>>

\* DELETE /api/projects/<id>
delete_project(project_id) ==
    /\ IF project_id \notin Ids(projects)
       THEN /\ result' = Response("delete_project", "404", project_id)
            /\ UNCHANGED <<projects, map_areas, layers, annotations, boundaries>>
       ELSE /\ projects' = {pr \in projects : pr.id # project_id}
            /\ DeleteAreas({m.id : m \in {r \in map_areas :
                                            r.project_id = project_id}})
            /\ result' = Response("delete_project", "ok", project_id)
    /\ UNCHANGED <<lastrowid, clock, calls>>

\* ------------------------------------------------------- reading one layer
\* a successful answer that carries one layer: list holds the layer returned
Returned(op, layer_id, layer) ==
    [op |-> op, status |-> "ok", id |-> layer_id, list |-> <<layer>>,
     created |-> 0]

\* GET /api/layers/<id>: get_layer / LayerService.read(layer_id=...)
get_layer(layer_id) ==
    /\ result' = IF layer_id \in Ids(layers)
                 THEN Returned("get_layer", layer_id, RowOf(layers, layer_id))
                 ELSE Response("get_layer", "not_found", layer_id)
    /\ UNCHANGED <<projects, map_areas, layers, annotations, boundaries,
                   lastrowid, clock, calls>>

\* ---------------------------------------------------------- layer updates
\* an update that also rewrites the inherited copies of the layer
update_layer_Propagate(layer_id, updates) ==
    /\ IF layer_id \notin Ids(layers)
       THEN /\ result' = Response("update_layer", "not_found", layer_id)
            /\ UNCHANGED layers
       ELSE IF ~RowOf(layers, layer_id).is_editable
       THEN /\ result' = Response("update_layer", "error", layer_id)
            /\ UNCHANGED layers
       ELSE /\ layers' = {IF r.id = layer_id \/ r.parent_layer_id = layer_id
                          THEN ApplyUpdates(r, updates) ELSE r : r \in layers}
            /\ result' = Returned("update_layer", layer_id,
                                  ApplyUpdates(RowOf(layers, layer_id), updates))
    /\ UNCHANGED <<map_areas, annotations, boundaries, lastrowid, clock, projects, calls>>

\* an update that skips the is_editable check
update_layer_Unguarded(layer_id, updates) ==
    /\ IF layer_id \notin Ids(layers)
       THEN /\ result' = Response("update_layer", "not_found", layer_id)
            /\ UNCHANGED layers
       ELSE /\ layers' = (layers \ {RowOf(layers, layer_id)})
                         \cup {ApplyUpdates(RowOf(layers, layer_id), updates)}
            /\ result' = Returned("update_layer", layer_id,
                                  ApplyUpdates(RowOf(layers, layer_id), updates))
    /\ UNCHANGED <<map_areas, annotations, boundaries, lastrowid, clock, projects, calls>>

\* PUT /api/layers/<id>: LayerService.update / update_layer
update_layer(layer_id, updates) ==
    /\ IF layer_id \notin Ids(layers)
       THEN /\ result' = Response("update_layer", "not_found", layer_id)
            /\ UNCHANGED layers
       ELSE LET layer == RowOf(layers, layer_id)
            IN IF ~layer.is_editable
               THEN /\ result' = Response("update_layer", "error", layer_id)
                    /\ UNCHANGED layers
               ELSE /\ layers' = (layers \ {layer})
                                 \cup {ApplyUpdates(layer, updates)}
                    /\ result' = Returned("update_layer", layer_id,
                                          ApplyUpdates(layer, updates))
    /\ UNCHANGED <<map_areas, annotations, boundaries, lastrowid, clock, projects, calls>>

\* a delete that answers success and leaves the row in place
delete_layer_Keep(layer_id) ==
    /\ result' = Response("delete_layer",
                          IF layer_id \notin Ids(layers) THEN "not_found"
                          ELSE IF ~RowOf(layers, layer_id).is_editable
                          THEN "error" ELSE "ok", layer_id)
    /\ UNCHANGED <<layers, annotations>>
    /\ UNCHANGED <<map_areas, boundaries, lastrowid, clock, projects, calls>>

\* DELETE /api/layers/<id>: LayerService.delete / delete_layer
delete_layer(layer_id) ==
    /\ IF layer_id \notin Ids(layers)
       THEN /\ result' = Response("delete_layer", "not_found", layer_id)
            /\ UNCHANGED <<layers, annotations>>
       ELSE LET layer == RowOf(layers, layer_id)
            IN IF ~layer.is_editable
               THEN /\ result' = Response("delete_layer", "error", layer_id)
                    /\ UNCHANGED <<layers, annotations>>
               ELSE LET dead == CascadeLayers(layers, {layer_id})
                    IN /\ layers' = {r \in layers : r.id \notin dead}
                       /\ annotations' = CascadeAnnotations(annotations, dead)
                       /\ result' = Response("delete_layer", "ok", layer_id)
    /\ UNCHANGED <<map_areas, boundaries, lastrowid, clock, projects, calls>>

\* LayerService.reorder_layers / _reorder_layers: one UPDATE per entry of
\* layer_updates, from position i on; no editability check
RECURSIVE ReorderLoop(_, _, _)
ReorderLoop(L, layer_updates, i) ==
    IF i > Len(layer_updates) THEN L
    ELSE LET update == layer_updates[i]
         IN ReorderLoop(
                {IF r.id = update.id
                 THEN [r EXCEPT !.z_index = update.z_index] ELSE r : r \in L},
                layer_updates, i + 1)

reorder_layers(layer_updates) ==
    /\ layers' = ReorderLoop(layers, layer_updates, 1)
    /\ result' = Response("reorder_layers", "ok", layer_updates[1].id)
    /\ UNCHANGED <<map_areas, annotations, boundaries, lastrowid, clock, projects, calls>>

\* --------------------------------------------------------- annotations
ANNOTATION_TYPES == {"marker", "line", "polygon", "text"}

\* the answer to POST /api/annotations; list holds the annotation_type of
\* the request
AnnotationResponse(status, layer_id, annotation_type) ==
    [op |-> "create_annotation", status |-> status, id |-> layer_id,
     list |-> <<annotation_type>>, created |-> 0]

\* a creation that skips the checks on the layer
create_annotation_Unguarded(layer_id, annotation_type, content) ==
    /\ lastrowid.annotations < MaxAnnotations
    /\ annotations' = annotations \cup
           {[id |-> lastrowid.annotations + 1, layer_id |-> layer_id,
             annotation_type |-> annotation_type, content |-> content]}
    /\ lastrowid' = [lastrowid EXCEPT !.annotations = @ + 1]
    /\ result' = AnnotationResponse("ok", layer_id, annotation_type)
    /\ UNCHANGED <<map_areas, layers, boundaries, clock, projects, calls>>

\* POST /api/annotations: AnnotationService.create / create_annotation
create_annotation(layer_id, annotation_type, content) ==
    /\ IF annotation_type \notin ANNOTATION_TYPES
       THEN /\ result' = AnnotationResponse("invalid", layer_id, annotation_type)
            /\ UNCHANGED <<annotations, lastrowid>>
       ELSE IF layer_id \notin Ids(layers)
       THEN /\ result' = AnnotationResponse("does not exist", layer_id,
                                            annotation_type)
            /\ UNCHANGED <<annotations, lastrowid>>
       ELSE IF ~RowOf(layers, layer_id).is_editable
       THEN /\ result' = AnnotationResponse("read-only", layer_id,
                                            annotation_type)
            /\ UNCHANGED <<annotations, lastrowid>>
       ELSE LET id == lastrowid.annotations + 1
            IN /\ lastrowid.annotations < MaxAnnotations
               /\ annotations' = annotations \cup
                      {[id |-> id, layer_id |-> layer_id,
                        annotation_type |-> annotation_type,
                        content |-> content]}
               /\ lastrowid' = [lastrowid EXCEPT !.annotations = id]
               /\ result' = AnnotationResponse("ok", layer_id, annotation_type)
    /\ UNCHANGED <<map_areas, layers, boundaries, clock, projects, calls>>

\* ------------------------- create_annotation, one store access a step
\* FOREIGN KEY (layer_id) REFERENCES layers(id), with PRAGMA foreign_keys = ON
AnnotationForeignKey_Off(layer_id) == TRUE

AnnotationForeignKey(layer_id) == layer_id \in Ids(layers)

\* the first store access of AnnotationService.create: the layer is read and
\* checked, the connection is committed and closed; a request that passes
\* is kept in calls until its INSERT
create_annotation_validate(layer_id, annotation_type, content) ==
    /\ Len(calls) < MaxWorkers
    /\ IF annotation_type \notin ANNOTATION_TYPES
       THEN /\ result' = AnnotationResponse("invalid", layer_id, annotation_type)
            /\ UNCHANGED calls
       ELSE IF layer_id \notin Ids(layers)
       THEN /\ result' = AnnotationResponse("does not exist", layer_id,
                                            annotation_type)
            /\ UNCHANGED calls
       ELSE IF ~RowOf(layers, layer_id).is_editable
       THEN /\ result' = AnnotationResponse("read-only", layer_id,
                                            annotation_type)
            /\ UNCHANGED calls
       ELSE /\ calls' = Append(calls, [layer_id |-> layer_id,
                                       annotation_type |-> annotation_type,
                                       content |-> content])
            /\ result' = AnnotationResponse("validated", layer_id,
                                            annotation_type)
    /\ UNCHANGED <<projects, map_areas, layers, annotations, boundaries,
                   lastrowid, clock>>

\* the second store access: INSERT INTO annotations in a connection of its
\* own; an IntegrityError is answered as 'Error creating annotation'
create_annotation_insert(w) ==
    /\ w \in 1..Len(calls)
    /\ LET c == calls[w]
           id == lastrowid.annotations + 1
       IN IF ~AnnotationForeignKey(c.layer_id)
          THEN /\ result' = AnnotationResponse("error creating", c.layer_id,
                                               c.annotation_type)
               /\ UNCHANGED <<annotations, lastrowid>>
          ELSE /\ lastrowid.annotations < MaxAnnotations
               /\ annotations' = annotations \cup
                      {[id |-> id, layer_id |-> c.layer_id,
                        annotation_type |-> c.annotation_type,
                        content |-> c.content]}
               /\ lastrowid' = [lastrowid EXCEPT !.annotations = id]
               /\ result' = AnnotationResponse("ok", c.layer_id,
                                               c.annotation_type)
    /\ calls' = RemoveCall(w)
    /\ UNCHANGED <<projects, map_areas, layers, boundaries, clock>>

\* PUT /api/annotations/<id>: AnnotationService.update / update_annotation
update_annotation(annotation_id, content) ==
    /\ annotations' =
           {IF a.id = annotation_id THEN [a EXCEPT !.content = content] ELSE a
            : a \in annotations}
    /\ result' = Response("update_annotation",
                          IF annotation_id \in Ids(annotations)
                          THEN "ok" ELSE "not_found",
                          annotation_id)
    /\ UNCHANGED <<map_areas, layers, boundaries, lastrowid, clock, projects, calls>>

\* ----------------------------------------------------------- boundaries
\* the vertices of the requests, [lat, lon] pairs
Points == <<<<1, 1>>, <<3, 1>>, <<1, 3>>, <<5, 5>>>>

Square == <<<<0, 0>>, <<0, 4>>, <<4, 4>>, <<4, 0>>>>

\* the coordinate lists of the requests: the square and every selection of
\* two or three of the points
CoordinateLists ==
    {Square} \cup
    {SelectSeq(Points, LAMBDA pt : pt \in S) :
        S \in {T \in SUBSET Range(Points) : Cardinality(T) \in 2..3}}

\* x < (xj - xi) * (y - yi) / (yj - yi) + xi, for yj # yi, on integers:
\* both sides are multiplied by yj - yi, whose sign turns the comparison
LeftOfEdge(x, y, xi, yi, xj, yj) ==
    IF yj - yi > 0
    THEN (x - xi) * (yj - yi) < (xj - xi) * (y - yi)
    ELSE (x - xi) * (yj - yi) > (xj - xi) * (y - yi)

\* the loop "for i in range(n)" of _point_in_polygon from vertex i on; j is
\* the previous vertex (vertices are numbered from 1 here)
RECURSIVE RayLoop(_, _, _, _, _)
RayLoop(point, polygon, i, j, inside) ==
    IF i > Len(polygon) THEN inside
    ELSE LET x == point[1]
             y == point[2]
             xi == polygon[i][1]
             yi == polygon[i][2]
             xj == polygon[j][1]
             yj == polygon[j][2]
             intersect == /\ (yi > y) # (yj > y)
                          /\ LeftOfEdge(x, y, xi, yi, xj, yj)
         IN RayLoop(point, polygon, i + 1, i,
                    IF intersect THEN ~inside ELSE inside)

\* a test that leaves out the edge from the last vertex back to the first
point_in_polygon_Unclosed(point, polygon) ==
    RayLoop(point, polygon, 2, 1, FALSE)

point_in_polygon(point, polygon) ==
    RayLoop(point, polygon, 1, Len(polygon), FALSE)

\* a check that one contained vertex is enough to pass
is_within_boundary_Any(coordinates, parent_boundary) ==
    \E k \in 1..Len(coordinates) :
        point_in_polygon(coordinates[k], parent_boundary)

is_within_boundary(coordinates, parent_boundary) ==
    \A k \in 1..Len(coordinates) :
        point_in_polygon(coordinates[k], parent_boundary)

\* BoundaryModel.__init__ raises ValueError on these coordinates
BoundaryModelRejects(coordinates) ==
    \/ Len(coordinates) < 3
    \/ \E k \in 1..Len(coordinates) : Len(coordinates[k]) # 2

\* SELECT * FROM boundaries WHERE map_area_id = ?
BoundaryRows(map_id) == {b \in boundaries : b.map_area_id = map_id}

\* BoundaryService.read(map_id): the row found, or "raise" when there is
\* none: the method ends in a bare raise outside any except clause
BoundaryService_read(map_id, tie) ==
    IF BoundaryRows(map_id) # {}
    THEN [raised |-> FALSE, boundary |-> fetchone(BoundaryRows(map_id), tie)]
    ELSE [raised |-> TRUE, boundary |-> NULL]

\* a message that names the kind the parent area has
RejectionMessage_ByParent(map_area, parent_area) ==
    IF parent_area.area_type = "suburb"
    THEN <<"Individual map", "suburb">>
    ELSE <<"Suburb", "master map">>

\* the two kinds named by "<map_type> boundary must be completely within
\* the <parent_type> boundary"
RejectionMessage(map_area, parent_area) ==
    <<IF map_area.area_type = "individual" THEN "Individual map" ELSE "Suburb",
      IF map_area.area_type = "individual" THEN "suburb" ELSE "master map">>

\* POST /api/boundaries
create_boundary(map_area_id, coordinates) ==
    /\ \E tie \in TieOrders :
        LET map_area == RowOf(map_areas, map_area_id)
            parent_area == RowOf(map_areas, map_area.parent_id)
            parent_boundary == BoundaryService_read(map_area.parent_id, tie)
            id == lastrowid.boundaries + 1
        IN IF map_area_id \notin Ids(map_areas)
           THEN /\ result' = BoundaryResponse("404", map_area_id,
                                           coordinates)
                /\ UNCHANGED <<boundaries, lastrowid>>
           ELSE IF map_area.parent_id # NULL /\ parent_boundary.raised
           THEN /\ result' = BoundaryResponse("500", map_area_id,
                                           coordinates)
                /\ UNCHANGED <<boundaries, lastrowid>>
           ELSE IF /\ map_area.parent_id # NULL
                   /\ ~is_within_boundary(coordinates,
                                          parent_boundary.boundary.coordinates)
           THEN /\ result' = [BoundaryResponse("400", map_area_id,
                                            coordinates)
                                EXCEPT !.error =
                                    RejectionMessage(map_area, parent_area)]
                /\ UNCHANGED <<boundaries, lastrowid>>
           ELSE IF BoundaryModelRejects(coordinates)
           THEN /\ result' = BoundaryResponse("500", map_area_id,
                                           coordinates)
                /\ UNCHANGED <<boundaries, lastrowid>>
           ELSE /\ lastrowid.boundaries < MaxBoundaries
                /\ boundaries' = boundaries \cup
                       {[id |-> id, map_area_id |-> map_area_id,
                         coordinates |-> coordinates]}
                /\ lastrowid' = [lastrowid EXCEPT !.boundaries = id]
                /\ result' = BoundaryResponse("201", map_area_id,
                                           coordinates)
    /\ UNCHANGED <<map_areas, layers, annotations, clock, projects, calls>>

\* UPDATE boundaries SET coordinates = ?, updated_at = CURRENT_TIMESTAMP
\* WHERE id = ?
WriteCoordinates(B, boundary_id, coordinates) ==
    {IF b.id = boundary_id THEN [b EXCEPT !.coordinates = coordinates] ELSE b :
        b \in B}

\* an update that validates the new coordinates against the boundary of the
\* parent area as create_boundary does
update_boundary_Checked(boundary_id, coordinates) ==
    /\ \E tie \in TieOrders :
        LET row == RowOf(boundaries, boundary_id)
            map_area == RowOf(map_areas, row.map_area_id)
            parent_rows == BoundaryRows(map_area.parent_id)
            status == IF boundary_id \notin Ids(boundaries) THEN "404"
                      ELSE IF /\ parent_rows # {}
                              /\ ~is_within_boundary(coordinates,
                                    fetchone(parent_rows, tie).coordinates)
                      THEN "400"
                      ELSE IF BoundaryModelRejects(coordinates) THEN "500"
                      ELSE "200"
        IN /\ boundaries' = IF status = "400" THEN boundaries
                            ELSE WriteCoordinates(boundaries, boundary_id,
                                                  coordinates)
           /\ result' = [BoundaryResponse(status, boundary_id, coordinates)
                            EXCEPT !.op = "update_boundary"]
    /\ UNCHANGED <<projects, map_areas, layers, annotations, lastrowid, clock,
                   calls>>

\* PUT /api/boundaries/<boundary_id>: BoundaryService.update writes the
\* coordinates and commits, then _get_boundary reads the row back and builds
\* a BoundaryModel from it, whose ValueError the route answers with 500
update_boundary(boundary_id, coordinates) ==
    /\ boundaries' = WriteCoordinates(boundaries, boundary_id, coordinates)
    /\ result' = [BoundaryResponse(
                      IF boundary_id \notin Ids(boundaries) THEN "404"
                      ELSE IF BoundaryModelRejects(coordinates) THEN "500"
                      ELSE "200", boundary_id, coordinates)
                    EXCEPT !.op = "update_boundary"]
    /\ UNCHANGED <<projects, map_areas, layers, annotations, lastrowid, clock,
                   calls>>

\* DELETE /api/boundaries/<boundary_id>
delete_boundary(boundary_id) ==
    /\ boundaries' = {b \in boundaries : b.id # boundary_id}
    /\ result' = Response("delete_boundary",
                          IF boundary_id \in Ids(boundaries) THEN "200"
                          ELSE "404", boundary_id)
    /\ UNCHANGED <<projects, map_areas, layers, annotations, lastrowid, clock,
                   calls>>

\* ------------------------------------------- the geometry kernel on its own
\* the arguments of the call under test are kept in calls, what it returned
\* in result
Grid == (0..GridMax) \X (0..GridMax)

SquareTen == <<<<0, 0>>, <<0, 10>>, <<10, 10>>, <<10, 0>>>>

\* polygons of three and four grid vertices
GridPolygons == [1..3 -> Grid] \cup [1..4 -> Grid]

\* a == b for two coordinate pairs (Python compares lists element-wise)
SamePoint(a, b) == a[1] = b[1] /\ a[2] = b[2]

\* [[coord[1], coord[0]] for coord in self.coordinates]
SwapPairs(coordinates) ==
    [k \in 1..Len(coordinates) |-> <<coordinates[k][2], coordinates[k][1]>>]

\* a ring that is never closed
to_geojson_Open(coordinates) == SwapPairs(coordinates)

\* BoundaryModel.to_geojson / Boundary.to_geojson: the ring under
\* geometry.coordinates[0]
to_geojson(coordinates) ==
    LET geojson_coords == SwapPairs(coordinates)
    IN IF ~SamePoint(geojson_coords[1], geojson_coords[Len(geojson_coords)])
       THEN Append(geojson_coords, geojson_coords[1])
       ELSE geojson_coords

PureCall(fn, point, polygon) ==
    [fn |-> fn, point |-> point, polygon |-> polygon]

\* the coordinate lists to_geojson is applied to: one to three grid points,
\* and the list [[1, 2], [3, 4], [5, 6]]
RingInputs ==
    [1..1 -> Grid] \cup [1..2 -> Grid] \cup [1..3 -> Grid]
        \cup {<<<<1, 2>>, <<3, 4>>, <<5, 6>>>>}

\* the state before a call of one of the two functions
InitGeometry ==
    /\ projects = {}
    /\ map_areas = {}
    /\ layers = {}
    /\ annotations = {}
    /\ boundaries = {}
    /\ lastrowid = [projects |-> 0, map_areas |-> 0, layers |-> 0,
                    annotations |-> 0, boundaries |-> 0]
    /\ clock = 0
    /\ result = Response("init", "ok", NULL)
    /\ \/ \E polygon \in GridPolygons, point \in Grid :
            calls = <<PureCall("_point_in_polygon", point, polygon)>>
       \/ \E point \in {<<5, 5>>, <<20, 20>>} :
            calls = <<PureCall("_point_in_polygon", point, SquareTen)>>
       \/ \E coordinates \in RingInputs :
            calls = <<PureCall("to_geojson", NULL, coordinates)>>

\* BoundaryService._point_in_polygon(point, polygon) returns
call_point_in_polygon ==
    /\ result.op = "init"
    /\ calls[1].fn = "_point_in_polygon"
    /\ result' = [Response("_point_in_polygon",
                           IF point_in_polygon(calls[1].point, calls[1].polygon)
                           THEN "True" ELSE "False", NULL)
                    EXCEPT !.list = <<>>]
    /\ UNCHANGED <<projects, map_areas, layers, annotations, boundaries,
                   lastrowid, clock, calls>>

\* BoundaryModel(coordinates=...).to_geojson() returns; list is the ring
call_to_geojson ==
    /\ result.op = "init"
    /\ calls[1].fn = "to_geojson"
    /\ result' = [Response("to_geojson", "ok", NULL)
                    EXCEPT !.list = to_geojson(calls[1].polygon)]
    /\ UNCHANGED <<projects, map_areas, layers, annotations, boundaries,
                   lastrowid, clock, calls>>

\* ------------------------------------------------------- project import
\* dict.get(key) on an id map kept as a set of <<old id, new id>> pairs
MapGet(id_map, key) ==
    IF \E pr \in id_map : pr[1] = key
    THEN (CHOOSE pr \in id_map : pr[1] = key)[2]
    ELSE NULL

MapPut(id_map, key, value) ==
    {pr \in id_map : pr[1] # key} \cup {<<key, value>>}

\* the state import_project works on: the tables, the counters and the
\* two id maps
ImportStart ==
    LET new_project_id == lastrowid.projects + 1
    IN [projects |-> projects \cup {[id |-> new_project_id]},
        new_project_id |-> new_project_id,
        map_areas |-> map_areas, layers |-> layers,
        annotations |-> annotations, boundaries |-> boundaries,
        lastrowid |-> [lastrowid EXCEPT !.projects = new_project_id],
        map_area_id_map |-> {}, layer_id_map |-> {}]

\* "for area in import_data['map_areas']" from position i on
RECURSIVE ImportAreas(_, _, _)
ImportAreas(areas, i, st) ==
    IF i > Len(areas) THEN st
    ELSE LET area == areas[i]
             new_area_id == st.lastrowid.map_areas + 1
             new_area == [id |-> new_area_id,
                          project_id |-> st.new_project_id,
                          parent_id |-> MapGet(st.map_area_id_map, area.parent_id),
                          area_type |-> area.area_type]
         IN ImportAreas(areas, i + 1,
                [st EXCEPT !.map_areas = @ \cup {new_area},
                           !.lastrowid.map_areas = new_area_id,
                           !.map_area_id_map = MapPut(@, area.id, new_area_id)])

\* "for boundary in import_data['boundaries']" from position i on
RECURSIVE ImportBoundaries(_, _, _)
ImportBoundaries(bs, i, st) ==
    IF i > Len(bs) THEN st
    ELSE LET new_map_area_id == MapGet(st.map_area_id_map, bs[i].map_area_id)
             id == st.lastrowid.boundaries + 1
         IN ImportBoundaries(bs, i + 1,
                IF new_map_area_id = NULL THEN st
                ELSE [st EXCEPT !.boundaries = @ \cup
                                    {[id |-> id, map_area_id |-> new_map_area_id,
                                      coordinates |-> bs[i].coordinates]},
                                !.lastrowid.boundaries = id])

\* "for layer in import_data['layers']" from position i on
RECURSIVE ImportLayers(_, _, _)
ImportLayers(ls, i, st) ==
    IF i > Len(ls) THEN st
    ELSE LET layer == ls[i]
             new_map_area_id == MapGet(st.map_area_id_map, layer.map_area_id)
             new_layer_id == st.lastrowid.layers + 1
             new_layer ==
                 [id |-> new_layer_id, map_area_id |-> new_map_area_id,
                  parent_layer_id |-> MapGet(st.layer_id_map, layer.parent_layer_id),
                  name |-> layer.name, layer_type |-> layer.layer_type,
                  visible |-> layer.visible, z_index |-> layer.z_index,
                  is_editable |-> IF "is_editable" \in DOMAIN layer
                                  THEN layer.is_editable ELSE TRUE,
                  config |-> layer.config, created_at |-> clock]
         IN ImportLayers(ls, i + 1,
                IF new_map_area_id = NULL THEN st
                ELSE [st EXCEPT !.layers = @ \cup {new_layer},
                                !.lastrowid.layers = new_layer_id,
                                !.layer_id_map = MapPut(@, layer.id, new_layer_id)])

\* "for annotation in import_data['annotations']" from position i on
RECURSIVE ImportAnnotations(_, _, _)
ImportAnnotations(as, i, st) ==
    IF i > Len(as) THEN st
    ELSE LET new_layer_id == MapGet(st.layer_id_map, as[i].layer_id)
             id == st.lastrowid.annotations + 1
         IN ImportAnnotations(as, i + 1,
                IF new_layer_id = NULL THEN st
                ELSE [st EXCEPT !.annotations = @ \cup
                                    {[id |-> id, layer_id |-> new_layer_id,
                                      annotation_type |-> as[i].annotation_type,
                                      content |-> as[i].content]},
                                !.lastrowid.annotations = id])

\* the documents posted to /api/projects/import: the export of a project
\* with one annotated layer, the same document with the layer marked
\* read-only, and a document with a child area whose inherited copy carries
\* the annotation
ImportLayer(id, map_area_id, parent_layer_id) ==
    [id |-> id, map_area_id |-> map_area_id,
     parent_layer_id |-> parent_layer_id, name |-> "n1",
     layer_type |-> "annotation", visible |-> TRUE, z_index |-> 0,
     config |-> "{}"]

ImportDocuments ==
    <<[map_areas |-> <<[id |-> 7, parent_id |-> NULL, area_type |-> "master"]>>,
       boundaries |-> <<[map_area_id |-> 7, coordinates |-> Square]>>,
       layers |-> <<ImportLayer(5, 7, NULL)>>,
       annotations |-> <<[layer_id |-> 5, annotation_type |-> "marker",
                          content |-> "c1"]>>],
      [map_areas |-> <<[id |-> 7, parent_id |-> NULL, area_type |-> "master"]>>,
       boundaries |-> <<>>,
       layers |-> <<[ImportLayer(5, 7, NULL) EXCEPT !.name = "n2"]
                        @@ [is_editable |-> FALSE]>>,
       annotations |-> <<[layer_id |-> 5, annotation_type |-> "marker",
                          content |-> "c1"]>>],
      [map_areas |-> <<[id |-> 7, parent_id |-> NULL, area_type |-> "master"],
                       [id |-> 8, parent_id |-> 7, area_type |-> "suburb"]>>,
       boundaries |-> <<>>,
       layers |-> <<ImportLayer(5, 7, NULL),
                    ImportLayer(6, 8, 5) @@ [is_editable |-> FALSE]>>,
       annotations |-> <<[layer_id |-> 6, annotation_type |-> "marker",
                          content |-> "c1"]>>]>>

\* POST /api/projects/import: ProjectService.import_project, one transaction
import_project(import_data) ==
    LET st == ImportAnnotations(import_data.annotations, 1,
                ImportLayers(import_data.layers, 1,
                  ImportBoundaries(import_data.boundaries, 1,
                    ImportAreas(import_data.map_areas, 1, ImportStart))))
    IN /\ st.lastrowid.projects <= MaxProjects
       /\ st.lastrowid.map_areas <= MaxAreas
       /\ st.lastrowid.layers <= MaxLayers
       /\ st.lastrowid.annotations <= MaxAnnotations
       /\ st.lastrowid.boundaries <= MaxBoundaries
       /\ projects' = st.projects
       /\ map_areas' = st.map_areas
       /\ layers' = st.layers
       /\ annotations' = st.annotations
       /\ boundaries' = st.boundaries
       /\ lastrowid' = st.lastrowid
       /\ result' = Response("import_project", "ok", NULL)
       /\ UNCHANGED <<clock, calls>>

\* ------------------------------------------------------- project export
\* the rows a SELECT without ORDER BY returns, in the order of the scan
RECURSIVE ScanRows(_, _)
ScanRows(S, tie) ==
    IF S = {} THEN <<>>
    ELSE <<fetchone(S, tie)>> \o ScanRows(S \ {fetchone(S, tie)}, tie)

\* "for area_row in map_areas" of export_project from position i on: the
\* boundaries, layers and annotations collected area by area
RECURSIVE ExportAreas(_, _, _, _)
ExportAreas(areas, i, tie, doc) ==
    IF i > Len(areas) THEN doc
    ELSE LET area_layers ==
                 ScanRows({l \in layers : l.map_area_id = areas[i].id}, tie)
             RECURSIVE LayerAnnotations(_)
             LayerAnnotations(k) ==
                 IF k > Len(area_layers) THEN <<>>
                 ELSE ScanRows({a \in annotations :
                                    a.layer_id = area_layers[k].id}, tie)
                      \o LayerAnnotations(k + 1)
         IN ExportAreas(areas, i + 1, tie,
                [doc EXCEPT
                    !.boundaries = @ \o ScanRows(BoundaryRows(areas[i].id), tie),
                    !.layers = @ \o area_layers,
                    !.annotations = @ \o LayerAnnotations(1)])

\* ProjectService.export_project: the document of project_id
export_project(project_id, tie) ==
    LET areas == ScanRows({a \in map_areas : a.project_id = project_id}, tie)
    IN ExportAreas(areas, 1, tie,
            [map_areas |-> areas, boundaries |-> <<>>, layers |-> <<>>,
             annotations |-> <<>>])

\* GET /api/projects/<id>/export followed by POST /api/projects/import of
\* the document it returned: the project is stored a second time
export_import_project(project_id) ==
    /\ project_id \in Ids(projects)
    /\ lastrowid.projects <= MaxProjects
    /\ \E tie \in TieOrders :
        LET import_data == export_project(project_id, tie)
            st == ImportAnnotations(import_data.annotations, 1,
                    ImportLayers(import_data.layers, 1,
                      ImportBoundaries(import_data.boundaries, 1,
                        ImportAreas(import_data.map_areas, 1, ImportStart))))
        IN /\ projects' = st.projects
           /\ map_areas' = st.map_areas
           /\ layers' = st.layers
           /\ annotations' = st.annotations
           /\ boundaries' = st.boundaries
           /\ lastrowid' = st.lastrowid
           /\ result' = Response("export_import_project", "ok", project_id)
    /\ UNCHANGED <<clock, calls>>

\* ------------------------------------------- claims on the layer stack
Resolves == {"list_layers", "api_list_layers"}

\* the layer listing of area map_area_id as the request op computes it
ResolveOf(op, map_area_id, db, tie) ==
    IF op = "list_layers"
    THEN list_layers_for_map_area(map_area_id, db, tie)
    ELSE LayerService_read(map_area_id, db, tie)

CopiedFields == {"name", "layer_type", "visible", "z_index", "config"}

\* C1: when a layer listing of an area that has a parent directly follows
\* a layer listing of the same area by the same service, the second one
\* inserts no layer row and returns the layers (ids) the first returned.
C1_Idempotent ==
    [][(/\ result.op \in Resolves
        /\ result'.op = result.op
        /\ result'.id = result.id
        /\ ParentOf(result.id) # NULL)
       => /\ layers' = layers
          /\ lastrowid' = lastrowid
          /\ result'.created = 0
          /\ Ids(Range(result'.list)) = Ids(Range(result.list))]_vars

\* a listing of a child area returned inherited copies that were all
\* stored before it: an earlier listing of the area had materialized them
C1_Witness ==
    /\ result.op = "list_layers"
    /\ ParentOf(result.id) # NULL
    /\ result.created = 0
    /\ \E c \in Range(result.list) : c.parent_layer_id # NULL

\* C2: the listing of an area A with parent P returns A's own layers plus
\* exactly one inherited layer per layer p of P's listing; the inherited
\* layer is owned by A, has parent_layer_id = p.id, is not editable, and a
\* copy made by this listing carries p's name, type, visibility, z_index
\* and config.
C2_Materialization ==
    (result.op \in Resolves /\ ParentOf(result.id) # NULL) =>
        LET A == result.id
            returned == Range(result.list)
            parentStack ==
                Range(ResolveOf(result.op, ParentOf(A), Db, "asc").list)
            firstNew == lastrowid.layers - result.created
        IN /\ {r \in returned : r.parent_layer_id = NULL}
                = {r \in layers : r.map_area_id = A /\ r.parent_layer_id = NULL}
           /\ \A p \in parentStack :
                Cardinality({i \in 1..Len(result.list) :
                                result.list[i].parent_layer_id = p.id}) = 1
           /\ \A c \in returned : c.parent_layer_id # NULL =>
                /\ c.map_area_id = A
                /\ ~c.is_editable
                /\ c.parent_layer_id \in Ids(parentStack)
                /\ c.id > firstNew =>
                     \A f \in CopiedFields :
                        c[f] = RowOf(layers, c.parent_layer_id)[f]

\* C3: a stored layer with a parent_layer_id is not editable; a layer
\* without one (the layers users create) is editable, and the layer a
\* create_layer request has just stored has no parent_layer_id and is editable.
C3_EditableInvariant ==
    /\ \A r \in layers : r.parent_layer_id # NULL => ~r.is_editable
    /\ \A r \in layers : r.parent_layer_id = NULL => r.is_editable
    /\ (result.op = "create_layer" /\ result.status = "ok") =>
          /\ RowOf(layers, result.id).parent_layer_id = NULL
          /\ RowOf(layers, result.id).is_editable

\* an inherited copy and a user-created layer are stored, and updates,
\* a reorder and a delete have been tried on them
C3_Witness ==
    /\ \E r \in layers : r.parent_layer_id # NULL
    /\ \E r \in layers : r.parent_layer_id = NULL /\ r.name = "n2"
    /\ result.op = "reorder_layers"
    /\ lastrowid.layers > Cardinality(layers)

\* C4: update_layer and delete_layer on a stored non-editable layer end in
\* an error and leave layers and annotations as they were; on a stored
\* editable layer they succeed, the update setting exactly the updatable
\* fields of the request and the delete removing the layer; on an id that
\* is not stored they report not-found and change nothing.
C4_LayerMutationGuard ==
    [][\A l \in 1..MaxLayers :
        (result'.op \in {"update_layer", "delete_layer"} /\ result'.id = l) =>
            IF l \notin Ids(layers)
            THEN /\ result'.status = "not_found"
                 /\ layers' = layers /\ annotations' = annotations
            ELSE IF ~RowOf(layers, l).is_editable
            THEN /\ result'.status = "error"
                 /\ layers' = layers /\ annotations' = annotations
            ELSE /\ result'.status = "ok"
                 /\ result'.op = "delete_layer" => l \notin Ids(layers')
                 /\ result'.op = "update_layer" =>
                      /\ l \in Ids(layers')
                      /\ \E i \in 1..Len(UpdatePayloads) :
                           \A f \in DOMAIN RowOf(layers, l) :
                              RowOf(layers', l)[f] =
                                 IF f \in allowed_fields
                                    /\ f \in DOMAIN UpdatePayloads[i]
                                 THEN UpdatePayloads[i][f]
                                 ELSE RowOf(layers, l)[f]]_vars

\* an update of a stored inherited copy has been rejected
C4_Witness ==
    /\ result.op = "update_layer"
    /\ result.status = "error"
    /\ result.id \in Ids(layers)
    /\ ~RowOf(layers, result.id).is_editable

\* C9: a layer listing is sorted by z_index ascending and any
\* two of its layers with equal z_index are in ascending created_at order,
\* own or inherited.
C9_Ordering ==
    result.op \in Resolves =>
        \A i, j \in 1..Len(result.list) : i < j =>
            \/ result.list[i].z_index < result.list[j].z_index
            \/ /\ result.list[i].z_index = result.list[j].z_index
               /\ result.list[i].created_at <= result.list[j].created_at

\* C10: an update_layer request changes no stored layer other than the
\* one it names, so the inherited copies of that layer keep every field;
\* a layer listing changes no stored row, returns the copies that were
\* already stored exactly as stored, and inserts no copy for a parent
\* layer that already has one in the area.
C10_Snapshot ==
    [][/\ result'.op = "update_layer" =>
            \A c \in layers : c.id # result'.id => c \in layers'
       /\ result'.op \in Resolves =>
            /\ layers \subseteq layers'
            /\ \A c \in Range(result'.list) :
                  c.id \in Ids(layers) => c \in layers
            /\ \A n \in layers' \ layers :
                  ~\E c \in layers :
                      /\ c.map_area_id = n.map_area_id
                      /\ c.parent_layer_id = n.parent_layer_id]_vars

\* a listing returned a stored copy whose parent layer was renamed after
\* the copy had been materialized: the copy still has the old name
C10_Witness ==
    /\ result.op = "list_layers"
    /\ result.created = 0
    /\ \E c \in Range(result.list) :
          /\ c.parent_layer_id \in Ids(layers)
          /\ c.name = "n1"
          /\ RowOf(layers, c.parent_layer_id).name = "n2"

\* ------------------------------------------------ claims on boundaries
AllVerticesPass(coordinates, polygon) ==
    \A k \in 1..Len(coordinates) : point_in_polygon(coordinates[k], polygon)

\* the step stored the request's coordinates as a new boundary of its area
StoredBoundary ==
    \E b \in boundaries' \ boundaries :
        b.map_area_id = result'.id /\ b.coordinates = result'.list

C8_TrivialPass ==
    [][(/\ result'.op = "create_boundary"
        /\ result'.id \in Ids(map_areas)
        /\ BoundaryRows(ParentOf(result'.id)) = {}
        /\ Len(result'.list) >= 3)
       => /\ result'.status = "201"
          /\ StoredBoundary]_vars

\* ----------------------------------------------- claims on annotations
\* C5: a create_annotation request of a valid type ends in the 'does not
\* exist' error when its layer is not stored and in the 'read-only' error
\* when the layer is stored and not editable, and inserts nothing in both
\* cases; when the layer is stored and editable it inserts the annotation
\* under a new id.
C5_CreateGuard ==
    [][(/\ result'.op = "create_annotation"
        /\ result'.list[1] \in ANNOTATION_TYPES)
       => IF result'.id \notin Ids(layers)
          THEN /\ result'.status = "does not exist"
               /\ annotations' = annotations
          ELSE IF ~RowOf(layers, result'.id).is_editable
          THEN /\ result'.status = "read-only"
               /\ annotations' = annotations
          ELSE /\ result'.status = "ok"
               /\ \E a \in annotations' :
                     /\ a.id \notin Ids(annotations) \cup {NULL}
                     /\ a.layer_id = result'.id
                     /\ annotations' = annotations \cup {a}]_vars

\* an annotation has been refused on a stored inherited copy
C5_Witness ==
    /\ result.op = "create_annotation"
    /\ result.status = "read-only"
    /\ result.id \in Ids(layers)
    /\ RowOf(layers, result.id).parent_layer_id # NULL

\* C6: an update of a stored annotation whose layer is stored and not
\* editable is rejected and leaves the annotations as they were.
C6_UpdateGuard ==
    [][(/\ result'.op = "update_annotation"
        /\ result'.id \in Ids(annotations)
        /\ RowOf(annotations, result'.id).layer_id \in Ids(layers)
        /\ ~RowOf(layers, RowOf(annotations, result'.id).layer_id).is_editable)
       => /\ annotations' = annotations
          /\ result'.status # "ok"]_vars

\* ------------------------------------------------- claims on the hierarchy
\* d has A among its ancestors in the table M (chains of at most n links)
RECURSIVE Reaches(_, _, _, _)
Reaches(M, d, A, n) ==
    /\ n > 0
    /\ d \in Ids(M)
    /\ \/ RowOf(M, d).parent_id = A
       \/ /\ RowOf(M, d).parent_id # NULL
          /\ Reaches(M, RowOf(M, d).parent_id, A, n - 1)

C12_Acyclic ==
    \A a \in Ids(map_areas) :
        /\ ~Reaches(map_areas, a, a, Cardinality(map_areas))
        /\ RowOf(map_areas, a).parent_id # NULL
            => RowOf(map_areas, a).parent_id \in Ids(map_areas)

\* C13: in every state reached by create_map_area and update_map_area, each
\* project that has areas has exactly one area of kind master with null
\* parent, and every other area has a parent that is a stored area of the
\* same project.
C13_Shape ==
    \A pr \in {m.project_id : m \in map_areas} :
        LET own == {m \in map_areas : m.project_id = pr}
        IN /\ Cardinality({m \in own : m.area_type = "master"
                                        /\ m.parent_id = NULL}) = 1
           /\ \A m \in own :
                m.area_type # "master"
                    => /\ m.parent_id # NULL
                       /\ m.parent_id \in Ids(own)

\* C14: for every area of every hierarchy built by create_map_area and
\* update_map_area, a listing of the area's layers eventually returns its
\* layer list: the recursion along the area's chain of parents ends, however
\* long the chain.
C14_Terminates ==
    \A a \in 1..MaxAreas :
        (\E w \in 1..Len(calls) : calls[w].map_area_id = a)
            ~> (result.op = "list_layers" /\ result.id = a
                    /\ result.status = "ok")

\* ------------------------------------------ claims on the failing store
\* C16: a listing during which a store read fails ends in an error for the
\* caller; it never returns a layer list.
C16_NoPartialStack ==
    result.op \in {"list_layers_store_error", "api_list_layers_store_error"}
        => result.status = "500"

\* ------------------------------------------- claims on concurrent listings
Copies(L, map_area_id, parent_layer_id) ==
    {r \in L : r.map_area_id = map_area_id
               /\ r.parent_layer_id = parent_layer_id}

\* C15: the lookup of an inherited copy and its insert are separate store
\* operations and nothing makes (owning area, origin layer) unique: the
\* insert that follows a lookup that found nothing stores one more copy for
\* that area and origin layer, whatever another listing stored meanwhile, so
\* two listings of the same area can leave two copies of one origin layer.
C15_Race ==
    [][\A w \in 1..MaxWorkers :
        (/\ w <= Len(calls)
         /\ calls[w].next = NULL
         /\ Top(calls[w]).pc = "insert"
         /\ Len(calls') = Len(calls)
         /\ calls'[w] # calls[w])
        => LET f == Top(calls[w])
               p == f.parent_layers[f.i].id
           IN Cardinality(Copies(layers', f.map_area_id, p))
                = Cardinality(Copies(layers, f.map_area_id, p)) + 1]_vars

\* two inherited copies with the same owning area and the same origin layer
C15_Witness ==
    \E r1, r2 \in layers :
        /\ r1.id # r2.id
        /\ r1.parent_layer_id # NULL
        /\ r1.map_area_id = r2.map_area_id
        /\ r1.parent_layer_id = r2.parent_layer_id

\* ------------------------------------------ claims on the geometry kernel
\* twice the signed area of the triangle a, b, c: positive when c lies to
\* the left of the line from a to b
Cross(a, b, c) ==
    (b[1] - a[1]) * (c[2] - a[2]) - (c[1] - a[1]) * (b[2] - a[2])

Min(m, n) == IF m < n THEN m ELSE n
Max(m, n) == IF m > n THEN m ELSE n

\* p lies on the closed segment from a to b
OnSegment(a, b, p) ==
    /\ Cross(a, b, p) = 0
    /\ Min(a[1], b[1]) <= p[1] /\ p[1] <= Max(a[1], b[1])
    /\ Min(a[2], b[2]) <= p[2] /\ p[2] <= Max(a[2], b[2])

\* the closed segments a b and c d have a point in common
SegmentsMeet(a, b, c, d) ==
    \/ /\ Cross(c, d, a) * Cross(c, d, b) < 0
       /\ Cross(a, b, c) * Cross(a, b, d) < 0
    \/ OnSegment(c, d, a) \/ OnSegment(c, d, b)
    \/ OnSegment(a, b, c) \/ OnSegment(a, b, d)

\* the vertex after vertex k
After(polygon, k) == polygon[IF k = Len(polygon) THEN 1 ELSE k + 1]

\* a simple polygon: distinct vertices, edges that share a vertex meet only
\* there, and no other two edges meet
IsSimple(polygon) ==
    LET n == Len(polygon)
    IN /\ n >= 3
       /\ \A k, l \in 1..n : k < l => ~SamePoint(polygon[k], polygon[l])
       /\ \A k, l \in 1..n :
            k < l =>
                IF l = k + 1
                THEN ~OnSegment(polygon[k], polygon[l], After(polygon, l))
                     /\ ~OnSegment(polygon[l], After(polygon, l), polygon[k])
                ELSE IF k = 1 /\ l = n
                THEN ~OnSegment(polygon[l], polygon[k], After(polygon, k))
                     /\ ~OnSegment(polygon[k], After(polygon, k), polygon[l])
                ELSE ~SegmentsMeet(polygon[k], After(polygon, k),
                                   polygon[l], After(polygon, l))

\* the winding number of the polygon around p, edge k onwards
RECURSIVE Winding(_, _, _)
Winding(p, polygon, k) ==
    IF k > Len(polygon) THEN 0
    ELSE LET a == polygon[k]
             b == After(polygon, k)
             turn == IF a[2] <= p[2] /\ b[2] > p[2] /\ Cross(a, b, p) > 0
                     THEN 1
                     ELSE IF a[2] > p[2] /\ b[2] <= p[2] /\ Cross(a, b, p) < 0
                     THEN -1 ELSE 0
         IN turn + Winding(p, polygon, k + 1)

OnBoundary(p, polygon) ==
    \E k \in 1..Len(polygon) : OnSegment(polygon[k], After(polygon, k), p)

StrictlyInside(p, polygon) ==
    ~OnBoundary(p, polygon) /\ Winding(p, polygon, 1) # 0

OutsideBox(p, polygon) ==
    \/ \A k \in 1..Len(polygon) : p[1] < polygon[k][1]
    \/ \A k \in 1..Len(polygon) : p[1] > polygon[k][1]
    \/ \A k \in 1..Len(polygon) : p[2] < polygon[k][2]
    \/ \A k \in 1..Len(polygon) : p[2] > polygon[k][2]

\* C17: for every simple polygon of at least three grid vertices and every
\* grid point, _point_in_polygon returns True for a point strictly inside
\* the polygon and False for a point strictly outside its bounding box;
\* (5, 5) is inside the square [[0,0],[0,10],[10,10],[10,0]], (20, 20) is not.
C17_PointInPolygon ==
    result.op = "_point_in_polygon"
        => LET point == calls[1].point
               polygon == calls[1].polygon
           IN /\ IsSimple(polygon)
                    => /\ StrictlyInside(point, polygon)
                            => result.status = "True"
                       /\ OutsideBox(point, polygon)
                            => result.status = "False"
              /\ polygon = SquareTen /\ point = <<5, 5>>
                    => result.status = "True"
              /\ polygon = SquareTen /\ point = <<20, 20>>
                    => result.status = "False"

\* a grid point strictly inside a simple four-sided polygon that is not
\* convex was tested
C17_Witness ==
    /\ result.op = "_point_in_polygon"
    /\ result.status = "True"
    /\ Len(calls[1].polygon) = 4
    /\ IsSimple(calls[1].polygon)
    /\ StrictlyInside(calls[1].point, calls[1].polygon)
    /\ \E k \in 1..4 :
        Cross(calls[1].polygon[k], After(calls[1].polygon, k),
              After(calls[1].polygon, IF k = 4 THEN 1 ELSE k + 1)) > 0
    /\ \E k \in 1..4 :
        Cross(calls[1].polygon[k], After(calls[1].polygon, k),
              After(calls[1].polygon, IF k = 4 THEN 1 ELSE k + 1)) < 0

\* C18: for every non-empty coordinate list, the ring of to_geojson is the
\* input with each [lat, lon] pair swapped to [lon, lat], followed by one
\* more copy of the first swapped point exactly when the last swapped point
\* differs from the first; the ring's first and last points are equal, and
\* [[1, 2], [3, 4], [5, 6]] gives [[2, 1], [4, 3], [6, 5], [2, 1]].
C18_ClosedRing ==
    result.op = "to_geojson"
        => LET coordinates == calls[1].polygon
               ring == result.list
               n == Len(coordinates)
               first == <<coordinates[1][2], coordinates[1][1]>>
               last == <<coordinates[n][2], coordinates[n][1]>>
           IN /\ Len(ring) = IF first # last THEN n + 1 ELSE n
              /\ \A k \in 1..n :
                    ring[k] = <<coordinates[k][2], coordinates[k][1]>>
              /\ first # last => ring[n + 1] = first
              /\ ring[1] = ring[Len(ring)]
              /\ coordinates = <<<<1, 2>>, <<3, 4>>, <<5, 6>>>>
                    => ring = <<<<2, 1>>, <<4, 3>>, <<6, 5>>, <<2, 1>>>>

\* the list [[1, 2], [3, 4], [5, 6]] was converted and the ring was closed
\* by a fourth point
C18_Witness ==
    /\ result.op = "to_geojson"
    /\ calls[1].polygon = <<<<1, 2>>, <<3, 4>>, <<5, 6>>>>
    /\ Len(result.list) = 4
    /\ result.list[4] = <<2, 1>>

\* ------------------------------------- claims on vertices on the boundary
\* C22: create_boundary accepts a candidate every vertex of which lies
\* inside or exactly on the boundary polygon of the parent area, on an edge
\* or at a corner.
C22_OnBoundaryAccepted ==
    [][result'.op = "create_boundary" /\ result'.id \in Ids(map_areas) =>
        LET map_area == RowOf(map_areas, result'.id)
            parent_rows == BoundaryRows(map_area.parent_id)
            InsideOrOn(p, polygon) ==
                StrictlyInside(p, polygon) \/ OnBoundary(p, polygon)
        IN /\ map_area.parent_id # NULL
           /\ parent_rows # {}
           /\ Len(result'.list) >= 3
           /\ \A b \in parent_rows :
                /\ IsSimple(b.coordinates)
                /\ \A k \in 1..Len(result'.list) :
                        InsideOrOn(result'.list[k], b.coordinates)
           => result'.status = "201"]_vars

\* ------------------------------------------ claims on boundary requests
\* C26: a create_boundary request rejected by the containment check names
\* the pair ("Individual map", "suburb") exactly when the area of the request
\* is an individual, and the pair ("Suburb", "master map") for every other
\* kind, whatever kind the parent area has.
C26_RejectionMessage ==
    [][result'.op = "create_boundary" /\ result'.status = "400" =>
        /\ result'.error = <<"Individual map", "suburb">>
            <=> RowOf(map_areas, result'.id).area_type = "individual"
        /\ result'.error = <<"Suburb", "master map">>
            <=> RowOf(map_areas, result'.id).area_type # "individual"]_vars

\* an individual directly under a master area was rejected: the message
\* names a suburb as the containing kind
C26_Witness ==
    /\ result.op = "create_boundary"
    /\ result.status = "400"
    /\ result.error = <<"Individual map", "suburb">>
    /\ result.id \in Ids(map_areas)
    /\ RowOf(map_areas, result.id).area_type = "individual"
    /\ RowOf(map_areas, result.id).parent_id \in Ids(map_areas)
    /\ RowOf(map_areas, RowOf(map_areas, result.id).parent_id).area_type
            = "master"

\* C25: update_boundary replaces the coordinates of a stored boundary with
\* those of the request without comparing them with the boundary of the
\* parent area, and changes no other boundary: the boundaries of the child
\* areas stay as they are when the boundary of their parent is replaced.
C25_CreationOnly ==
    [][result'.op = "update_boundary" =>
        /\ \A b \in boundaries : b.id # result'.id => b \in boundaries'
        /\ result'.id \in Ids(boundaries) =>
            /\ RowOf(boundaries', result'.id) =
                    [RowOf(boundaries, result'.id)
                        EXCEPT !.coordinates = result'.list]
            /\ Len(result'.list) >= 3 => result'.status = "200"]_vars

\* the boundary of a parent area was replaced, and a vertex of the boundary
\* of its child area is now outside it
C25_Witness ==
    /\ result.op = "update_boundary"
    /\ result.status = "200"
    /\ Cardinality(boundaries) = 2
    /\ \E bp, bc \in boundaries :
        /\ bp.id = result.id
        /\ bc.map_area_id \in Ids(map_areas)
        /\ RowOf(map_areas, bc.map_area_id).parent_id = bp.map_area_id
        /\ Len(bc.coordinates) >= 3
        /\ ~AllVerticesPass(bc.coordinates, bp.coordinates)

\* C19: after any sequence of create_boundary and update_boundary requests
\* every stored boundary has at least 3 coordinate pairs; a request with
\* fewer than 3 points is answered with a validation error (400) and leaves
\* the stored boundaries unchanged.
C19_MinimumSize ==
    [][/\ \A b \in boundaries' : Len(b.coordinates) >= 3
       /\ /\ result'.op \in {"create_boundary", "update_boundary"}
          /\ Len(result'.list) < 3
          => /\ result'.status = "400"
             /\ boundaries' = boundaries]_vars

\* C20: after any sequence of create_boundary, update_boundary and
\* delete_boundary requests each area owns at most one stored boundary.
C20_OneBoundaryPerArea ==
    \A b1, b2 \in boundaries : b1.map_area_id = b2.map_area_id => b1 = b2

\* --------------------------------------- claims on reading after writing
\* C21: once delete_layer has succeeded on a layer, every later get_layer of
\* that id reports not found and no later listing returns the layer; on a
\* stored editable layer get_layer, update_layer and delete_layer each
\* succeed, get_layer returns the stored layer, and update_layer returns the
\* layer with the name and the visibility of the request.
C21_DeleteThenRead ==
    /\ \A l \in 1..MaxLayers :
        [](result.op = "delete_layer" /\ result.status = "ok" /\ result.id = l
            => [](/\ result.op = "get_layer" /\ result.id = l
                        => result.status = "not_found"
                  /\ result.op \in Resolves
                        => \A k \in 1..Len(result.list) : result.list[k].id # l))
    /\ [][\A l \in Ids(layers) :
            LET layer == RowOf(layers, l)
            IN layer.is_editable /\ result'.id = l =>
                /\ result'.op = "get_layer"
                    => result' = Returned("get_layer", l, layer)
                /\ result'.op = "delete_layer"
                    => result'.status = "ok" /\ l \notin Ids(layers')
                /\ result'.op = "update_layer"
                    => /\ result'.status = "ok"
                       /\ result'.list = <<RowOf(layers', l)>>
                       /\ \A i \in 1..Len(UpdatePayloads) :
                            layers' = (layers \ {layer})
                                \cup {ApplyUpdates(layer, UpdatePayloads[i])}
                            => \A f \in {"name", "visible"}
                                    \cap DOMAIN UpdatePayloads[i] :
                                 result'.list[1][f] = UpdatePayloads[i][f]]_vars

\* a layer of the only area was created and deleted, and was then asked for
C21_Witness ==
    /\ result.op = "get_layer"
    /\ result.status = "not_found"
    /\ result.id \in 1..lastrowid.layers
    /\ lastrowid.map_areas = 1

\* ------------------------------------------ claims on what never changes
IdentityFields == {"is_editable", "parent_layer_id", "map_area_id", "layer_type"}

\* C23: a stored layer keeps its is_editable, parent_layer_id, map_area_id
\* and layer_type in every step until it is deleted, and its id is never
\* given to another layer; an update_layer request changes no field of any
\* layer other than name, visible, z_index and config, whatever fields the
\* request names.
C23_Immutable ==
    [][/\ \A r \in layers :
            r.id \in Ids(layers') =>
                \A f \in IdentityFields : RowOf(layers', r.id)[f] = r[f]
       /\ \A n \in layers' : n.id \notin Ids(layers) => n.id > lastrowid.layers
       /\ result'.op = "update_layer" =>
            \A r \in layers :
                /\ r.id \in Ids(layers')
                /\ \A f \in DOMAIN r \ allowed_fields :
                        RowOf(layers', r.id)[f] = r[f]]_vars

\* an update whose request named is_editable, parent_layer_id, map_area_id
\* and layer_type next to a new name was applied to an own annotation layer
\* of area 1 while an inherited copy was stored
C23_Witness ==
    /\ result.op = "update_layer"
    /\ result.status = "ok"
    /\ result.list[1].name = "n3"
    /\ result.list[1].map_area_id = 1
    /\ result.list[1].layer_type = "annotation"
    /\ result.list[1].is_editable
    /\ \E c \in layers : ~c.is_editable

\* C24: every request that updates a layer, reorder_layers included, is
\* rejected for a layer that is not editable: no field of a stored inherited
\* layer changes in any step.
C24_ReorderGuarded ==
    [][/\ \A r \in layers :
            ~r.is_editable /\ r.id \in Ids(layers') => r \in layers'
       /\ /\ result'.op \in {"update_layer", "reorder_layers"}
          /\ result'.id \in Ids(layers)
          /\ ~RowOf(layers, result'.id).is_editable
          => result'.status = "error"]_vars

\* ---------------------------------------- claims on re-parented areas
\* C27: after any sequence of layer creations and deletions, changes of an
\* area's parent and listings, every inherited layer a listing of area A
\* returns belongs to A, has as origin a stored layer of the resolved stack
\* of A's current parent, and no two of them have the same origin; a copy
\* of a deleted layer or of a layer of a former parent is not returned.
C27_TracksParent ==
    [][result'.op \in Resolves /\ result'.status = "ok" =>
        LET A == result'.id
            after == [layers |-> layers', lastrowid |-> lastrowid'.layers,
                      now |-> clock']
            inherited == {k \in 1..Len(result'.list) :
                            result'.list[k].parent_layer_id # NULL}
        IN /\ \A k \in inherited :
                /\ result'.list[k].map_area_id = A
                /\ result'.list[k].parent_layer_id \in Ids(layers')
                /\ ParentOf(A) # NULL
                /\ \E tie \in TieOrders :
                    result'.list[k].parent_layer_id \in
                        Ids(Range(ResolveOf(result'.op, ParentOf(A), after,
                                            tie).list))
           /\ \A k, l \in inherited :
                k # l => result'.list[k].parent_layer_id
                            # result'.list[l].parent_layer_id]_vars

\* area 2 was listed after it had been moved away from its parent: the copy
\* it holds of a layer of the former parent is stored and was not returned
C27_Witness ==
    /\ result.op = "list_layers"
    /\ result.status = "ok"
    /\ ParentOf(result.id) = NULL
    /\ \E c \in layers :
        /\ c.map_area_id = result.id
        /\ c.parent_layer_id \in Ids(layers)
        /\ c \notin Range(result.list)

\* ------------------------------------------- claims on chains of areas
OwnLayers(map_area_id) ==
    {r \in layers : r.map_area_id = map_area_id /\ r.parent_layer_id = NULL}

\* C28: for a chain master M, child C, grandchild G, a listing of G returns
\* exactly |own(M)| + |own(C)| + |own(G)| layers; for every own layer of M
\* it returns one layer whose origin is C's inherited copy of that layer,
\* and none whose origin is the layer of M itself; after the listing C
\* holds a copy of every own layer of M.
C28_MultiLevel ==
    result.op \in Resolves /\ result.status = "ok" =>
        LET G == result.id
            C == ParentOf(G)
            M == ParentOf(C)
        IN C # NULL /\ M # NULL /\ ParentOf(M) = NULL /\ M # G =>
            /\ Len(result.list) = Cardinality(OwnLayers(M))
                    + Cardinality(OwnLayers(C)) + Cardinality(OwnLayers(G))
            /\ \A m \in OwnLayers(M) :
                /\ \E c \in layers :
                        c.map_area_id = C /\ c.parent_layer_id = m.id
                /\ \A k \in 1..Len(result.list) :
                        result.list[k].parent_layer_id # m.id
                /\ Cardinality({k \in 1..Len(result.list) :
                        \E c \in layers :
                            /\ c.map_area_id = C
                            /\ c.parent_layer_id = m.id
                            /\ result.list[k].parent_layer_id = c.id}) = 1

\* ------------------------------- claims on concurrent annotation requests
\* C29: in every state reached by any interleaving of the two store
\* accesses of create_annotation with delete_layer, the layer of every
\* stored annotation is stored and editable.
C29_AnnotationIntegrity ==
    \A a \in annotations :
        /\ a.layer_id \in Ids(layers)
        /\ RowOf(layers, a.layer_id).is_editable

\* the INSERT of a validated request was refused: its layer had been deleted
\* after the validation
C29_Witness ==
    /\ result.op = "create_annotation"
    /\ result.status = "error creating"
    /\ result.id \notin Ids(layers)
    /\ result.id \in 1..lastrowid.layers

\* ------------------------------------------- claims on export and import
\* C30: importing the export of a project creates one new area per exported
\* area, and the parent of the new area of an exported area with parent p
\* is the new area of p, whatever the order of the areas in the export;
\* likewise one new layer per exported layer, the origin of the new layer
\* of an inherited layer being the new layer of its origin.
C30_ImportPreservesHierarchy ==
    [][result'.op = "export_import_project" =>
        LET old_areas == {a \in map_areas : a.project_id = result'.id}
            new_areas == map_areas' \ map_areas
            old_layers == {l \in layers : l.map_area_id \in Ids(old_areas)}
            new_layers == layers' \ layers
            NewOf(f, old) == IF old = NULL THEN NULL ELSE f[old]
        IN \E f \in [Ids(old_areas) -> Ids(new_areas)] :
             /\ \A n \in Ids(new_areas) : \E o \in Ids(old_areas) : f[o] = n
             /\ Cardinality(new_areas) = Cardinality(old_areas)
             /\ \A a \in old_areas :
                    /\ RowOf(map_areas', f[a.id]).area_type = a.area_type
                    /\ RowOf(map_areas', f[a.id]).project_id \notin Ids(projects)
                    /\ RowOf(map_areas', f[a.id]).parent_id
                            = NewOf(f, a.parent_id)
             /\ \E g \in [Ids(old_layers) -> Ids(new_layers)] :
                  /\ \A n \in Ids(new_layers) :
                        \E o \in Ids(old_layers) : g[o] = n
                  /\ Cardinality(new_layers) = Cardinality(old_layers)
                  /\ \A l \in old_layers :
                        /\ RowOf(layers', g[l.id]).map_area_id = f[l.map_area_id]
                        /\ RowOf(layers', g[l.id]).parent_layer_id
                                = NewOf(g, l.parent_layer_id)]_vars

\* ------------------------------------------------------- specifications
HierarchyOps ==
    \/ create_project
    \/ \E pr \in Ids(projects), p \in Ids(map_areas) \cup {NULL} :
            create_map_area(pr, p, IF p = NULL THEN "master" ELSE "suburb")

CreateLayerOps ==
    \E a \in 1..MaxAreas, z \in ZValues :
        create_layer(a, "n1", "annotation", TRUE, z, "{}")

ListOps ==
    \/ \E a \in 1..MaxAreas : list_layers(a)
    \/ \E a \in 1..MaxAreas : api_list_layers(a)

UpdateLayerOps ==
    \E l \in 1..MaxLayers, i \in 1..Len(UpdatePayloads) :
        update_layer(l, UpdatePayloads[i])

DeleteLayerOps == \E l \in 1..MaxLayers : delete_layer(l)

ReorderOps ==
    \E l \in 1..MaxLayers, z \in ZValues :
        reorder_layers(<<[id |-> l, z_index |-> z]>>)

\* the layer requests over a hierarchy built by create_map_area
Next ==
    \/ HierarchyOps
    \/ CreateLayerOps
    \/ ListOps
    \/ UpdateLayerOps
    \/ DeleteLayerOps
    \/ ReorderOps

Spec == Init /\ [][Next]_vars

\* the same requests spread over time
NextOrder ==
    \/ Next
    \/ Tick

SpecOrder == Init /\ [][NextOrder]_vars

\* annotation requests on created, inherited and imported layers
AnnotationOps ==
    \/ \E l \in 1..MaxLayers, t \in {"marker", "circle"} :
            create_annotation(l, t, "c1")
    \/ \E a \in 1..MaxAnnotations : update_annotation(a, "c2")

ImportOps == \E d \in 1..Len(ImportDocuments) : import_project(ImportDocuments[d])

NextAnnotations ==
    \/ HierarchyOps
    \/ CreateLayerOps
    \/ \E a \in 1..MaxAreas : list_layers(a)
    \/ AnnotationOps
    \/ ImportOps

SpecAnnotations == Init /\ [][NextAnnotations]_vars

\* the boundary requests over a hierarchy built by create_map_area
BoundaryOps ==
    \E a \in 1..MaxAreas, coordinates \in CoordinateLists :
        create_boundary(a, coordinates)

NextBoundary ==
    \/ HierarchyOps
    \/ BoundaryOps

SpecBoundary == Init /\ [][NextBoundary]_vars

\* deletions over areas that own layers, annotations and boundaries
CascadeOps ==
    \/ \E a \in 1..MaxAreas : delete_map_area(a)
    \/ \E pr \in 1..MaxProjects : delete_project(pr)

NextCascade ==
    \/ HierarchyOps
    \/ \E a \in 1..MaxAreas : create_layer(a, "n1", "annotation", TRUE, 0, "{}")
    \/ \E a \in 1..MaxAreas : list_layers(a)
    \/ \E l \in 1..MaxLayers : create_annotation(l, "marker", "c1")
    \/ \E a \in 1..MaxAreas : create_boundary(a, Square)
    \/ CascadeOps

SpecCascade == Init /\ [][NextCascade]_vars

\* every area request, with any project, parent and kind
AreaOps ==
    \/ create_project
    \/ \E pr \in 1..MaxProjects, p \in 0..MaxAreas,
          t \in AREA_TYPES \cup {"city"} : create_map_area(pr, p, t)
    \/ \E a \in 1..MaxAreas, u \in MapUpdatePayloads : update_map_area(a, u)

NextHierarchy ==
    \/ AreaOps
    \/ \E a \in 1..MaxAreas : delete_map_area(a)

SpecHierarchy == Init /\ [][NextHierarchy]_vars

\* one listing at a time, step by step, over any hierarchy; no layer is
\* stored, so the loop over the parent's layers has nothing to look up
ResolveSteps ==
    \E w \in 1..MaxWorkers :
        \/ list_layers_enter(w)
        \/ list_layers_return(w)

NextResolve ==
    \/ AreaOps
    \/ \E a \in 1..MaxAreas : calls = <<>> /\ list_layers_call(a)
    \/ ResolveSteps

\* a request that has started is served to its end
SpecResolve == Init /\ [][NextResolve]_vars /\ WF_vars(ResolveSteps)

\* up to MaxWorkers listings at a time, each step by step
RaceSteps ==
    \E w \in 1..MaxWorkers :
        \/ list_layers_enter(w)
        \/ list_layers_lookup(w)
        \/ list_layers_insert(w)
        \/ list_layers_return(w)

NextRace ==
    \/ HierarchyOps
    \/ \E a \in 1..MaxAreas : create_layer(a, "n1", "annotation", TRUE, 0, "{}")
    \/ \E a \in 1..MaxAreas : list_layers_call(a)
    \/ RaceSteps

SpecRace == Init /\ [][NextRace]_vars

\* listings over a store whose reads may fail
FaultOps ==
    \/ \E a \in 1..MaxAreas, failing \in StoreReads :
            api_list_layers_store_error(a, failing)
    \/ \E a \in 1..MaxAreas, failing \in StoreReads :
            list_layers_store_error(a, failing)

NextFaults ==
    \/ HierarchyOps
    \/ CreateLayerOps
    \/ ListOps
    \/ FaultOps

SpecFaults == Init /\ [][NextFaults]_vars

\* the two functions of the geometry kernel, each applied to every input
NextGeometry ==
    \/ call_point_in_polygon
    \/ call_to_geojson

SpecGeometry == InitGeometry /\ [][NextGeometry]_vars

\* boundaries created, replaced and deleted
BoundaryEditOps ==
    \/ \E b \in 1..MaxBoundaries, coordinates \in CoordinateLists :
        update_boundary(b, coordinates)
    \/ \E b \in 1..MaxBoundaries : delete_boundary(b)

NextBoundaryEdits ==
    \/ HierarchyOps
    \/ BoundaryOps
    \/ BoundaryEditOps

SpecBoundaryEdits == Init /\ [][NextBoundaryEdits]_vars

\* one layer read back between the layer requests
GetLayerOps == \E l \in 1..MaxLayers : get_layer(l)

NextReadBack ==
    \/ HierarchyOps
    \/ CreateLayerOps
    \/ ListOps
    \/ GetLayerOps
    \/ UpdateLayerOps
    \/ DeleteLayerOps

SpecReadBack == Init /\ [][NextReadBack]_vars

\* the layer requests, the updates naming fields that are not updatable
ForeignUpdateOps == \E l \in 1..MaxLayers : update_layer(l, ForeignPayload)

NextIdentity ==
    \/ HierarchyOps
    \/ CreateLayerOps
    \/ ListOps
    \/ ForeignUpdateOps
    \/ DeleteLayerOps
    \/ ReorderOps

SpecIdentity == Init /\ [][NextIdentity]_vars

\* boundaries created in hierarchies of areas of every kind
KindOps ==
    \/ create_project
    \/ \E pr \in Ids(projects), p \in Ids(map_areas) \cup {NULL},
          t \in AREA_TYPES :
            create_map_area(pr, p, t)

NextMessages ==
    \/ KindOps
    \/ BoundaryOps

SpecMessages == Init /\ [][NextMessages]_vars

\* layers created, deleted and listed while areas change their parent
ReparentOps ==
    \E a \in 1..MaxAreas, p \in 0..MaxAreas :
        update_map_area(a, [parent_id |-> p])

NextReparent ==
    \/ HierarchyOps
    \/ ReparentOps
    \/ \E a \in 1..MaxAreas : create_layer(a, "n1", "annotation", TRUE, 0, "{}")
    \/ DeleteLayerOps
    \/ ListOps

SpecReparent == Init /\ [][NextReparent]_vars

\* layers created, deleted and listed on a chain of areas
ChainOps ==
    \/ \E a \in 1..ChainDepth :
            create_layer(a, "n1", "annotation", TRUE, 0, "{}")
    \/ \E a \in 1..ChainDepth : list_layers(a)
    \/ \E a \in 1..ChainDepth : api_list_layers(a)
    \/ DeleteLayerOps

NextChain == ChainOps

SpecChain == InitChain /\ [][NextChain]_vars

\* annotation requests in two store accesses, interleaved with one another
\* and with the deletion of their layers
AnnotationSteps ==
    \/ \E l \in 1..MaxLayers, t \in {"marker", "circle"} :
            create_annotation_validate(l, t, "c1")
    \/ \E w \in 1..MaxWorkers : create_annotation_insert(w)

NextAnnotationRace ==
    \/ HierarchyOps
    \/ \E a \in 1..MaxAreas : create_layer(a, "n1", "annotation", TRUE, 0, "{}")
    \/ \E a \in 1..MaxAreas : list_layers(a)
    \/ DeleteLayerOps
    \/ AnnotationSteps

SpecAnnotationRace == Init /\ [][NextAnnotationRace]_vars

\* a project built, its areas moved under one another, and stored a second
\* time by an import of its export
NextExportImport ==
    \/ HierarchyOps
    \/ ReparentOps
    \/ \E a \in 1..MaxAreas : create_layer(a, "n1", "annotation", TRUE, 0, "{}")
    \/ \E a \in 1..MaxAreas : list_layers(a)
    \/ \E pr \in 1..MaxProjects : export_import_project(pr)

SpecExportImport == Init /\ [][NextExportImport]_vars

====
